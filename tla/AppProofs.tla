------------------------------- MODULE AppProofs -------------------------------
(***************************************************************************)
(* The web app, for any wallets, accounts and terms.                       *)
(***************************************************************************)
EXTENDS MCApp, FiniteSetTheorems, SequenceTheorems, WellFoundedInduction, TLAPS

-----------------------------------------------------------------------------
(* Sessions                                                                *)

\* The run of a button stands at one of its steps or behind the last.
RunsOf(f) ==
  [i : 1..Len(Steps[f]) + 1, wallet : Wallets, account : AccountIds \cup {None},
   created : AccountIds \cup {None}, sent : BOOLEAN]

SessionTypes ==
  /\ owner \in [AccountIds -> Wallets \cup {None}]
  /\ paid \subseteq Wallets \X (AccountIds \cup {None}) \X Forms /\ IsFiniteSet(paid)
  /\ landed \in [StepNames -> Nat] /\ failed \in [Forms -> Nat]
  /\ address \in Wallets
  /\ data \in [Wallets -> SUBSET AccountIds] /\ optimistic \subseteq AccountIds
  /\ strayed \in BOOLEAN
  /\ DOMAIN runs = Forms /\ \A f \in Forms : runs[f] = NoRun \/ runs[f] \in RunsOf(f)

\* What is cached for a wallet is its own.
ReadsAreOwn ==
  /\ \A w \in Wallets : data[w] \subseteq Own(w)
  /\ strayed \/ optimistic \subseteq Own(address)

\* The account of a setup belongs to the wallet that runs it.
Created(f) == runs[f] # NoRun /\ (runs[f].i > 1 \/ runs[f].sent)
CreatedIsOwn == Created("setup") => owner[runs["setup"].created] = runs["setup"].wallet /\ runs["setup"].created \in AccountIds

SetupPayments == {p \in paid : p[3] = "setup"}

\* Half way: the account is there and its deposit is not, options are written and
\* not sold.
Undeposited == Created("setup") /\ (runs["setup"].i < 3 \/ (runs["setup"].i = 3 /\ ~runs["setup"].sent))
Unsold == Created("write") /\ (runs["write"].i < 3 \/ (runs["write"].i = 3 /\ ~runs["write"].sent))

UnpaidYet == Undeposited => \A p \in SetupPayments : p[2] # runs["setup"].created

Counted ==
  /\ landed["create"] <= Cardinality(SetupPayments) + failed["setup"] + (IF Undeposited THEN 1 ELSE 0)
  /\ landed["mint"] <= landed["sell"] + failed["write"] + (IF Unsold THEN 1 ELSE 0)

\* While disclosures are shown, their button does not run.
AskedIsIdle == asking # None => asking \in Forms /\ runs[asking] = NoRun

SessionInv == SessionTypes /\ AskedIsIdle /\ ReadsAreOwn /\ CreatedIsOwn /\ SetupPaysItself /\ UnpaidYet /\ Counted

LEMMA StepsOfForms ==
  /\ Len(Steps["setup"]) = 3 /\ Len(Steps["write"]) = 3
  /\ Steps["setup"][1] = "create" /\ Steps["setup"][2] = "approve" /\ Steps["setup"][3] = "deposit"
  /\ Steps["write"][1] = "mint" /\ Steps["write"][2] = "approve" /\ Steps["write"][3] = "sell"
  /\ Len(Steps["deposit"]) = 2 /\ Steps["deposit"][1] = "approve" /\ Steps["deposit"][2] = "deposit"
  /\ Len(Steps["buy"]) = 2 /\ Steps["buy"][1] = "approve" /\ Steps["buy"][2] = "buy"
  /\ DOMAIN Steps = {"setup", "deposit", "write", "buy"}
BY DEF Steps

\* Steps that leave the chain and the runs alone.
LEMMA RunsUntouched ==
  ASSUME UNCHANGED <<owner, paid, landed, failed, runs>>, UNCHANGED asking \/ asking' = None,
         AskedIsIdle, CreatedIsOwn, SetupPaysItself, UnpaidYet, Counted
  PROVE  AskedIsIdle' /\ CreatedIsOwn' /\ SetupPaysItself' /\ UnpaidYet' /\ Counted'
BY DEF AskedIsIdle, CreatedIsOwn, Created, SetupPaysItself, UnpaidYet, Undeposited, Unsold, SetupPayments, Counted, Own

LEMMA LeastAccount ==
  ASSUME NEW S \in SUBSET Nat, S # {}
  PROVE  \E m \in S : \A n \in S : m <= n
<1>1. PICK m \in S : \A n \in S : ~(<<n, m>> \in OpToRel(<, Nat))
  BY NatLessThanWellFounded, WFMin
<1>2. OpToRel(<, Nat) = {ss \in Nat \X Nat : ss[1] < ss[2]}
  BY DEF OpToRel
<1>3. \A x, y \in Nat : x < y => <<x, y>> \in OpToRel(<, Nat)
  BY <1>2
<1>4. \A n \in S : ~(n < m)
  BY <1>1, <1>3
<1> QED BY <1>4

LEMMA LeastIsOne ==
  ASSUME NEW S \in SUBSET AccountIds, S # {}
  PROVE  Least(S) \in S
BY LeastAccount, SessionAssumption DEF Least

LEMMA SelectedIsListed ==
  ASSUME SessionTypes
  PROVE  /\ accounts \subseteq AccountIds
         /\ selected \in accounts \cup {None}
<1>1. accounts \subseteq AccountIds
  BY DEF SessionTypes, accounts
<1> QED BY <1>1, LeastIsOne DEF selected

LEMMA SessionStarts == SessionInit => SessionInv
<1> SUFFICES ASSUME SessionInit PROVE SessionInv
  OBVIOUS
<1>1. SessionTypes
  BY FS_EmptySet DEF SessionInit, SessionTypes
<1>2. ReadsAreOwn
  BY DEF SessionInit, ReadsAreOwn
<1>3. \A f \in Forms : ~Created(f)
  BY DEF SessionInit, Created
<1>4. AskedIsIdle /\ CreatedIsOwn /\ SetupPaysItself /\ UnpaidYet /\ ~Undeposited /\ ~Unsold
  BY <1>3, SessionAssumption DEF SessionInit, AskedIsIdle, CreatedIsOwn, SetupPaysItself, UnpaidYet, SetupPayments, Undeposited, Unsold
<1>5. SetupPayments = {}
  BY DEF SessionInit, SetupPayments
<1>6. Cardinality(SetupPayments) = 0
  BY <1>5, FS_EmptySet
<1>7. Counted
  BY <1>4, <1>6, SessionAssumption DEF Counted, SessionInit, StepNames
<1> QED BY <1>1, <1>2, <1>4, <1>7 DEF SessionInv

LEMMA ConnectKeeps ==
  ASSUME SessionInv, NEW w \in Wallets, Connect(w)
  PROVE  SessionInv'
<1> USE DEF SessionInv
<1>1. SessionTypes'
  BY DEF Connect, SessionTypes, chainVars, Forget
<1>2. ReadsAreOwn'
  BY DEF Connect, ReadsAreOwn, Own, chainVars, Forget
<1>3. AskedIsIdle' /\ CreatedIsOwn' /\ SetupPaysItself' /\ UnpaidYet' /\ Counted'
  BY RunsUntouched DEF Connect, chainVars
<1> QED BY <1>1, <1>2, <1>3

LEMMA RefetchKeeps ==
  ASSUME SessionInv, Refetch
  PROVE  SessionInv'
<1> USE DEF SessionInv
<1>1. SessionTypes'
  BY DEF Refetch, SessionTypes, chainVars, boundVars, Own
<1>2. ReadsAreOwn'
  <2>1. Own(address)' = Own(address) /\ \A w \in Wallets : Own(w)' = Own(w)
    BY DEF Refetch, Own, chainVars
  <2>2. \A w \in Wallets : data'[w] = IF w = address THEN Own(address) ELSE data[w]
    BY DEF Refetch, SessionTypes
  <2>3. UNCHANGED <<address, optimistic, strayed>>
    BY DEF Refetch, boundVars
  <2>4. Own(address') = Own(address)
    BY <2>3
  <2> QED BY <2>1, <2>2, <2>3, <2>4 DEF ReadsAreOwn
<1>3. AskedIsIdle' /\ CreatedIsOwn' /\ SetupPaysItself' /\ UnpaidYet' /\ Counted'
  BY RunsUntouched DEF Refetch, chainVars, boundVars
<1> QED BY <1>1, <1>2, <1>3

LEMMA SelectKeeps ==
  ASSUME SessionInv, NEW id \in AccountIds, Select(id)
  PROVE  SessionInv'
<1> USE DEF SessionInv
<1>1. SessionTypes'
  BY DEF Select, Selecting, SessionTypes, chainVars, boundVars
<1>2. id \in data[address] \cup optimistic
  BY DEF Select, accounts
<1>3. ReadsAreOwn'
  BY <1>2 DEF Select, Selecting, ReadsAreOwn, Own, chainVars, boundVars, SessionTypes
<1>4. AskedIsIdle' /\ CreatedIsOwn' /\ SetupPaysItself' /\ UnpaidYet' /\ Counted'
  BY RunsUntouched DEF Select, chainVars, boundVars
<1> QED BY <1>1, <1>3, <1>4

LEMMA CancelKeeps ==
  ASSUME SessionInv, Cancel
  PROVE  SessionInv'
<1> USE DEF SessionInv
<1>1. SessionTypes' /\ ReadsAreOwn'
  BY DEF Cancel, SessionTypes, ReadsAreOwn, Own, chainVars, accountVars, boundVars
<1>2. AskedIsIdle' /\ CreatedIsOwn' /\ SetupPaysItself' /\ UnpaidYet' /\ Counted'
  BY RunsUntouched DEF Cancel, chainVars, boundVars
<1> QED BY <1>1, <1>2

\* A button starts its run.
LEMMA BeginKeeps ==
  ASSUME SessionInv, NEW f \in Forms, runs[f] = NoRun, runs' = [runs EXCEPT ![f] = Begin(f)],
         asking' = None, UNCHANGED <<chainVars, address, data, optimistic, failed, strayed>>
  PROVE  SessionInv'
<1> USE DEF SessionInv
<1>1. Begin(f) \in RunsOf(f)
  <2>1. 1 \in 1..Len(Steps[f]) + 1
    BY StepsOfForms, SessionAssumption
  <2> QED BY <2>1, SelectedIsListed DEF Begin, RunsOf, SessionTypes
<1>2. SessionTypes'
  BY <1>1 DEF SessionTypes, chainVars
<1>3. ReadsAreOwn'
  BY DEF ReadsAreOwn, Own, chainVars
<1>4. \A g \in Forms : Created(g)' <=> Created(g)
  BY DEF Created, Begin, NoRun, SessionTypes
<1>5. \A g \in Forms : Created(g) => runs'[g] = runs[g]
  BY DEF Created, SessionTypes
<1>6. (Undeposited' <=> Undeposited) /\ (Unsold' <=> Unsold)
  BY <1>4, <1>5, SessionAssumption DEF Undeposited, Unsold
<1>7. AskedIsIdle' /\ CreatedIsOwn' /\ SetupPaysItself'
  BY <1>4, <1>5, SessionAssumption DEF AskedIsIdle, CreatedIsOwn, SetupPaysItself, Own, chainVars
<1>8. UnpaidYet' /\ Counted'
  BY <1>5, <1>6, SessionAssumption DEF UnpaidYet, Undeposited, SetupPayments, Counted, chainVars
<1> QED BY <1>2, <1>3, <1>7, <1>8

LEMMA PressKeeps ==
  ASSUME SessionInv, NEW f \in Forms, Press(f)
  PROVE  SessionInv'
<1>1. CASE Pending(f)
  <2>1. asking' = f /\ runs[f] = NoRun /\ UNCHANGED <<chainVars, address, accountVars, failed, strayed, runs>>
    BY <1>1 DEF Press, Idle
  <2>2. SessionTypes' /\ ReadsAreOwn'
    BY <2>1 DEF SessionInv, SessionTypes, ReadsAreOwn, Own, chainVars, accountVars
  <2>3. AskedIsIdle'
    BY <2>1 DEF AskedIsIdle
  <2>4. CreatedIsOwn' /\ SetupPaysItself' /\ UnpaidYet' /\ Counted'
    BY <2>1 DEF SessionInv, CreatedIsOwn, Created, SetupPaysItself, UnpaidYet, Undeposited, Unsold, SetupPayments,
       Counted, Own, chainVars
  <2> QED BY <2>2, <2>3, <2>4 DEF SessionInv
<1>2. CASE ~Pending(f)
  BY <1>2, BeginKeeps DEF Press, Idle, accountVars
<1> QED BY <1>1, <1>2

LEMMA AcceptKeeps ==
  ASSUME SessionInv, NEW f \in Forms, Accept(f)
  PROVE  SessionInv'
<1>1. runs[f] = NoRun /\ UNCHANGED <<chainVars, address, accountVars, boundVars>>
  BY SessionAssumption DEF Accept, SessionInv, AskedIsIdle
<1>2. CASE acked'
  BY <1>1, <1>2, BeginKeeps DEF Accept, accountVars, boundVars
<1>3. CASE ~acked'
  <2>1. UNCHANGED <<runs, asking>>
    BY <1>3 DEF Accept
  <2>2. SessionTypes' /\ ReadsAreOwn'
    BY <1>1, <2>1 DEF SessionInv, SessionTypes, ReadsAreOwn, Own, chainVars, accountVars, boundVars
  <2>3. AskedIsIdle' /\ CreatedIsOwn' /\ SetupPaysItself' /\ UnpaidYet' /\ Counted'
    BY <1>1, <2>1, RunsUntouched DEF chainVars, boundVars, SessionInv
  <2> QED BY <2>2, <2>3 DEF SessionInv
<1> QED BY <1>2, <1>3

LEMMA RunningHasRun ==
  ASSUME SessionTypes, NEW f \in Forms, Running(f)
  PROVE  runs[f] # NoRun /\ runs[f] \in RunsOf(f) /\ runs[f].i \in 1..Len(Steps[f]) /\ runs[f].i # 0
<1>1. Len(Steps[f]) \in Nat
  BY StepsOfForms, SessionAssumption
<1>2. runs[f].i \in 1..Len(Steps[f]) /\ runs[f].i # 0
  BY <1>1 DEF Running
<1> QED BY <1>2 DEF NoRun, SessionTypes

\* A step is behind the run when it is mined or needs no call.
LEMMA AdvanceKeeps ==
  ASSUME SessionInv, NEW f \in Forms, Running(f), runs' = Advance(f), runs[f].sent \/ Step(f) = "approve",
         UNCHANGED <<chainVars, address, data, optimistic, asking, failed, strayed>>
  PROVE  SessionInv'
<1> USE DEF SessionInv
<1>1. runs[f] # NoRun /\ runs[f] \in RunsOf(f) /\ runs[f].i \in 1..Len(Steps[f]) /\ runs[f].i # 0
  BY RunningHasRun
<1>2. /\ runs'[f] \in RunsOf(f) /\ runs'[f].i = runs[f].i + 1 /\ ~runs'[f].sent
      /\ runs'[f].wallet = runs[f].wallet /\ runs'[f].created = runs[f].created
      /\ runs'[f] # NoRun
  <2>1. Len(Steps[f]) \in Nat
    BY StepsOfForms, SessionAssumption
  <2>2. runs'[f] = [runs[f] EXCEPT !.i = runs[f].i + 1, !.sent = FALSE]
    BY DEF Advance, SessionTypes
  <2>3. runs'[f] = [i |-> runs[f].i + 1, wallet |-> runs[f].wallet, account |-> runs[f].account,
                    created |-> runs[f].created, sent |-> FALSE]
    BY <1>1, <2>2 DEF RunsOf
  <2> QED BY <1>1, <2>1, <2>3 DEF RunsOf, NoRun
<1>3. \A g \in Forms : g # f => runs'[g] = runs[g]
  BY DEF Advance, SessionTypes
<1>4. DOMAIN runs' = Forms
  BY DEF Advance, SessionTypes
<1>5. SessionTypes'
  BY <1>2, <1>3, <1>4 DEF SessionTypes, chainVars
<1>6. ReadsAreOwn' /\ AskedIsIdle'
  BY <1>1, <1>3, SessionAssumption DEF ReadsAreOwn, Own, chainVars, AskedIsIdle
<1>7. runs[f].i = 1 /\ f \in {"setup", "write"} => runs[f].sent
  BY StepsOfForms DEF Step
<1>8. runs[f].i = 3 /\ f \in {"setup", "write"} => runs[f].sent
  BY StepsOfForms DEF Step
<1>9. /\ f = "setup" => (Undeposited' <=> Undeposited) /\ (Created(f)' => Created(f))
      /\ f = "write" => (Unsold' <=> Unsold)
  BY <1>1, <1>2, <1>7, <1>8, StepsOfForms DEF Created, Undeposited, Unsold, RunsOf
<1>10. /\ f # "setup" => (Undeposited' <=> Undeposited) /\ (Created("setup")' <=> Created("setup"))
       /\ f # "write" => (Unsold' <=> Unsold)
  BY <1>3, SessionAssumption DEF Created, Undeposited, Unsold
<1>11. runs'["setup"].created = runs["setup"].created /\ runs'["setup"].wallet = runs["setup"].wallet
  BY <1>2, <1>3, SessionAssumption
<1>12. CreatedIsOwn' /\ SetupPaysItself' /\ UnpaidYet'
  BY <1>9, <1>10, <1>11 DEF CreatedIsOwn, SetupPaysItself, Own, UnpaidYet, SetupPayments, chainVars
<1>13. Counted'
  BY <1>9, <1>10 DEF Counted, SetupPayments, chainVars
<1> QED BY <1>5, <1>6, <1>12, <1>13

LEMMA SkipKeeps ==
  ASSUME SessionInv, NEW f \in Forms, Skip(f)
  PROVE  SessionInv'
BY AdvanceKeeps DEF Skip, accountVars, boundVars

LEMMA ReceiptKeeps ==
  ASSUME SessionInv, NEW f \in Forms, Receipt(f)
  PROVE  SessionInv'
BY AdvanceKeeps DEF Receipt, accountVars, boundVars

\* Which step a form is at.
LEMMA StepOfForm ==
  ASSUME NEW f \in Forms, NEW i \in 1..Len(Steps[f])
  PROVE  /\ Steps[f][i] \in StepNames
         /\ Steps[f][i] = "create" => f = "setup" /\ i = 1
         /\ Steps[f][i] = "deposit" /\ f = "setup" => i = 3
         /\ Steps[f][i] = "approve" /\ f \in {"setup", "write"} => i = 2
         /\ Steps[f][i] = "mint" => f = "write" /\ i = 1
         /\ Steps[f][i] = "sell" => f = "write" /\ i = 3
         /\ f = "setup" => Steps[f][i] \in {"create", "approve", "deposit"}
         /\ f = "write" => Steps[f][i] \in {"mint", "approve", "sell"}
         /\ f # "setup" => Steps[f][i] # "create"
<1>1. f \in {"setup", "deposit", "write", "buy"}
  BY StepsOfForms, SessionAssumption
<1>2. CASE f \in {"setup", "write"}
  <2>0. Len(Steps[f]) = 3
    BY <1>2, StepsOfForms
  <2>1. i = 1 \/ i = 2 \/ i = 3
    BY <2>0
  <2> QED BY <1>2, <2>1, StepsOfForms DEF StepNames
<1>3. CASE f \in {"deposit", "buy"}
  <2>0. Len(Steps[f]) = 2
    BY <1>3, StepsOfForms
  <2>1. i = 1 \/ i = 2
    BY <2>0
  <2> QED BY <1>3, <2>1, StepsOfForms DEF StepNames
<1> QED BY <1>1, <1>2, <1>3

LEMMA SentRun ==
  ASSUME NEW f \in Forms, NEW r \in RunsOf(f), NEW c \in AccountIds \cup {None}
  PROVE  [i |-> r.i, wallet |-> r.wallet, account |-> r.account, created |-> c, sent |-> TRUE] \in RunsOf(f)
BY DEF RunsOf

\* A transaction is mined that creates no account.
LEMMA MinedKeeps ==
  ASSUME SessionInv, NEW f \in Forms, Running(f), ~runs[f].sent, Step(f) # "create",
         runs' = [runs EXCEPT ![f].sent = TRUE], landed' = [landed EXCEPT ![Step(f)] = @ + 1],
         paid' = IF Step(f) = "deposit" THEN paid \cup {<<runs[f].wallet, DepositTo(f), f>>} ELSE paid,
         UNCHANGED <<owner, address, data, optimistic, asking, failed, strayed>>
  PROVE  SessionInv'
<1> USE DEF SessionInv
<1>1. runs[f] # NoRun /\ runs[f] \in RunsOf(f) /\ runs[f].i \in 1..Len(Steps[f]) /\ runs[f].i # 0
  BY RunningHasRun
<1>2. /\ Step(f) \in StepNames
      /\ Step(f) = "deposit" /\ f = "setup" => runs[f].i = 3
      /\ Step(f) = "mint" => f = "write" /\ runs[f].i = 1
      /\ Step(f) = "sell" => f = "write" /\ runs[f].i = 3
      /\ f = "setup" => runs[f].i # 1
      /\ f = "write" /\ runs[f].i = 1 => Step(f) = "mint"
      /\ f = "write" /\ runs[f].i = 3 => Step(f) = "sell"
      /\ f = "setup" /\ runs[f].i = 3 => Step(f) = "deposit"
  BY <1>1, StepOfForm, StepsOfForms DEF Step
<1>3. runs'[f] = [i |-> runs[f].i, wallet |-> runs[f].wallet, account |-> runs[f].account,
                  created |-> runs[f].created, sent |-> TRUE]
  BY <1>1 DEF RunsOf, SessionTypes
<1>4. \A g \in Forms : g # f => runs'[g] = runs[g]
  BY DEF SessionTypes
<1>5. runs'[f] \in RunsOf(f) /\ runs'[f] # NoRun
  <2>1. runs[f].i \in 1..Len(Steps[f]) + 1
    BY <1>1 DEF RunsOf
  <2>2. runs'[f].i # NoRun.i
    BY <1>1, <1>3 DEF NoRun
  <2>3. /\ runs[f].wallet \in Wallets /\ runs[f].account \in AccountIds \cup {None}
        /\ runs[f].created \in AccountIds \cup {None}
    BY <1>1 DEF RunsOf
  <2>4. runs'[f] \in RunsOf(f)
    BY <1>1, <1>3, <2>3, SentRun
  <2> QED BY <2>2, <2>4
<1>6. DepositTo(f) \in AccountIds \cup {None}
  BY <1>1 DEF DepositTo, RunsOf
<1>7. SessionTypes'
  <2>0. runs[f].wallet \in Wallets
    BY <1>1 DEF RunsOf
  <2>1. paid' \subseteq Wallets \X (AccountIds \cup {None}) \X Forms
    BY <2>0, <1>6 DEF SessionTypes
  <2>5. IsFiniteSet(paid')
    BY FS_AddElement DEF SessionTypes
  <2>2. landed' \in [StepNames -> Nat]
    BY <1>2 DEF SessionTypes
  <2>3. DOMAIN runs' = Forms
    BY DEF SessionTypes
  <2> QED BY <2>1, <2>2, <2>3, <2>5, <1>4, <1>5 DEF SessionTypes
<1>8. ReadsAreOwn' /\ AskedIsIdle'
  BY <1>1, <1>4, SessionAssumption DEF ReadsAreOwn, Own, AskedIsIdle
<1>9. /\ \A g \in Forms : runs'[g].i = runs[g].i /\ runs'[g].created = runs[g].created /\ runs'[g].wallet = runs[g].wallet
      /\ runs'[f].sent
      /\ \A g \in Forms : runs'[g] = NoRun <=> runs[g] = NoRun
  <2>1. \A g \in Forms : g = f => /\ runs'[g].i = runs[g].i /\ runs'[g].created = runs[g].created
                                   /\ runs'[g].wallet = runs[g].wallet
    BY <1>3
  <2>2. runs'[f].sent
    BY <1>3
  <2>3. \A g \in Forms : runs'[g] = NoRun <=> runs[g] = NoRun
    BY <1>1, <1>4, <1>5
  <2>4. \A g \in Forms : /\ runs'[g].i = runs[g].i /\ runs'[g].created = runs[g].created
                          /\ runs'[g].wallet = runs[g].wallet
    BY <2>1, <1>4
  <2> QED BY <2>2, <2>3, <2>4
<1>10. Created("setup")' <=> Created("setup")
  BY <1>1, <1>2, <1>4, <1>9, SessionAssumption DEF Created
<1>11. CreatedIsOwn'
  BY <1>9, <1>10, SessionAssumption DEF CreatedIsOwn
<1>12. CASE f = "setup" /\ Step(f) = "deposit"
  <2>1. Undeposited /\ ~Undeposited'
    BY <1>1, <1>2, <1>9, <1>12 DEF Undeposited, Created
  <2>2. runs[f].created \in AccountIds /\ owner[runs[f].created] = runs[f].wallet
    BY <2>1, <1>12 DEF Undeposited, CreatedIsOwn
  <2>3. SetupPayments' = SetupPayments \cup {<<runs[f].wallet, runs[f].created, f>>}
    BY <1>12 DEF SetupPayments, DepositTo
  <2>4. <<runs[f].wallet, runs[f].created, f>> \notin SetupPayments
    BY <2>1, <1>12 DEF UnpaidYet
  <2>5. IsFiniteSet(SetupPayments)
    BY FS_Subset DEF SessionTypes, SetupPayments
  <2>6. Cardinality(SetupPayments') = Cardinality(SetupPayments) + 1 /\ Cardinality(SetupPayments) \in Nat
    BY <2>3, <2>4, <2>5, FS_AddElement, FS_CardinalityType
  <2>7. SetupPaysItself'
    BY <2>2, <1>12 DEF SetupPaysItself, Own, DepositTo
  <2>8. Unsold' <=> Unsold
    BY <1>12, <1>4, SessionAssumption DEF Unsold, Created
  <2>9. landed'["create"] = landed["create"] /\ landed'["mint"] = landed["mint"] /\ landed'["sell"] = landed["sell"]
    BY <1>12 DEF SessionTypes, StepNames
  <2>10. landed["create"] \in Nat /\ failed["setup"] \in Nat
    BY SessionAssumption DEF SessionTypes, StepNames
  <2>11. Counted'
    BY <2>1, <2>6, <2>8, <2>9, <2>10 DEF Counted
  <2> QED BY <2>1, <2>7, <2>11, <1>7, <1>8, <1>11 DEF UnpaidYet
<1>13. CASE ~(f = "setup" /\ Step(f) = "deposit")
  <2>1. Undeposited' <=> Undeposited
    BY <1>1, <1>2, <1>4, <1>9, <1>10, <1>13, SessionAssumption DEF Undeposited, Created, RunsOf
  <2>2. SetupPayments' = SetupPayments
    BY <1>13 DEF SetupPayments
  <2>3. SetupPaysItself'
    BY <1>13 DEF SetupPaysItself, Own
  <2>4. UnpaidYet'
    BY <2>1, <2>2, <1>9, SessionAssumption DEF UnpaidYet
  <2>5. landed'["create"] = landed["create"]
    BY DEF SessionTypes, StepNames
  <2>6. landed["mint"] \in Nat /\ landed["sell"] \in Nat /\ failed["write"] \in Nat
    BY SessionAssumption DEF SessionTypes, StepNames
  <2>7. landed'["mint"] <= landed'["sell"] + failed'["write"] + (IF Unsold' THEN 1 ELSE 0)
    <3>1. CASE Step(f) = "mint"
      <4>1. ~Unsold /\ Unsold'
        BY <3>1, <1>1, <1>2, <1>9, <1>5 DEF Unsold, Created
      <4>2. landed'["mint"] = landed["mint"] + 1 /\ landed'["sell"] = landed["sell"]
        BY <3>1 DEF SessionTypes, StepNames
      <4> QED BY <4>1, <4>2, <2>6 DEF Counted
    <3>2. CASE Step(f) = "sell"
      <4>1. Unsold /\ ~Unsold'
        BY <3>2, <1>1, <1>2, <1>9, <1>5 DEF Unsold, Created
      <4>2. landed'["mint"] = landed["mint"] /\ landed'["sell"] = landed["sell"] + 1
        BY <3>2 DEF SessionTypes, StepNames
      <4> QED BY <4>1, <4>2, <2>6 DEF Counted
    <3>3. CASE Step(f) \notin {"mint", "sell"}
      <4>1. Unsold' <=> Unsold
        BY <3>3, <1>1, <1>2, <1>4, <1>9, SessionAssumption DEF Unsold, Created, RunsOf
      <4>2. landed'["mint"] = landed["mint"] /\ landed'["sell"] = landed["sell"]
        BY <3>3 DEF SessionTypes, StepNames
      <4> QED BY <4>1, <4>2, <2>6 DEF Counted
    <3> QED BY <3>1, <3>2, <3>3
  <2>8. Counted'
    BY <2>1, <2>2, <2>5, <2>7 DEF Counted
  <2> QED BY <2>3, <2>4, <2>8, <1>7, <1>8, <1>11
<1> QED BY <1>12, <1>13

\* The account of a setup is created.
LEMMA CreateKeeps ==
  ASSUME SessionInv, NEW f \in Forms, Running(f), ~runs[f].sent, Step(f) = "create", NEW id \in AccountIds,
         owner[id] = None, owner' = [owner EXCEPT ![id] = runs[f].wallet],
         runs' = [runs EXCEPT ![f].sent = TRUE, ![f].created = id], landed' = [landed EXCEPT !["create"] = @ + 1],
         UNCHANGED <<paid, address, data, optimistic, asking, failed, strayed>>
  PROVE  SessionInv'
<1> USE DEF SessionInv
<1>1. runs[f] # NoRun /\ runs[f] \in RunsOf(f) /\ runs[f].i \in 1..Len(Steps[f]) /\ runs[f].i # 0
  BY RunningHasRun
<1>2. f = "setup" /\ runs[f].i = 1
  BY <1>1, StepOfForm DEF Step
<1>3. runs'[f] = [i |-> runs[f].i, wallet |-> runs[f].wallet, account |-> runs[f].account,
                  created |-> id, sent |-> TRUE]
  BY <1>1 DEF RunsOf, SessionTypes
<1>4. \A g \in Forms : g # f => runs'[g] = runs[g]
  BY DEF SessionTypes
<1>5. runs'[f] \in RunsOf(f) /\ runs'[f] # NoRun
  <2>1. runs[f].i \in 1..Len(Steps[f]) + 1
    BY <1>1 DEF RunsOf
  <2>2. runs'[f].i # NoRun.i
    BY <1>1, <1>3 DEF NoRun
  <2>3. /\ runs[f].wallet \in Wallets /\ runs[f].account \in AccountIds \cup {None}
        /\ runs[f].created \in AccountIds \cup {None}
    BY <1>1 DEF RunsOf
  <2>4. runs'[f] \in RunsOf(f)
    BY <1>1, <1>3, <2>3, SentRun
  <2> QED BY <2>2, <2>4
<1>6. \A j \in AccountIds : owner'[j] = IF j = id THEN runs[f].wallet ELSE owner[j]
  BY DEF SessionTypes
<1>7. SessionTypes'
  <2>1. runs[f].wallet \in Wallets
    BY <1>1 DEF RunsOf
  <2>2. owner' \in [AccountIds -> Wallets \cup {None}]
    BY <2>1 DEF SessionTypes
  <2>3. landed' \in [StepNames -> Nat]
    BY DEF SessionTypes, StepNames
  <2>4. DOMAIN runs' = Forms
    BY DEF SessionTypes
  <2> QED BY <2>2, <2>3, <2>4, <1>4, <1>5 DEF SessionTypes
<1>8. \A v \in Wallets : Own(v) \subseteq Own(v)'
  BY <1>6, SessionAssumption DEF Own
<1>9. ReadsAreOwn'
  <2>1. address \in Wallets
    BY DEF SessionTypes
  <2>2. \A v \in Wallets : \A j \in AccountIds : owner[j] = v => owner'[j] = v
    BY <1>6, SessionAssumption
  <2> QED BY <2>1, <2>2 DEF ReadsAreOwn, Own
<1>10. AskedIsIdle'
  BY <1>1, <1>4, SessionAssumption DEF AskedIsIdle
<1>11. CreatedIsOwn'
  BY <1>2, <1>3, <1>6 DEF CreatedIsOwn
<1>12. SetupPaysItself'
  <2> SUFFICES ASSUME NEW p \in paid, p[3] = "setup" PROVE p[2] \in AccountIds /\ owner'[p[2]] = p[1]
    BY DEF SetupPaysItself, Own
  <2> QED BY <1>6, SessionAssumption DEF SetupPaysItself, Own, SessionTypes
<1>13. UnpaidYet'
  <2> SUFFICES ASSUME NEW p \in paid, p[3] = "setup" PROVE p[2] # id
    BY <1>2, <1>3 DEF UnpaidYet, SetupPayments
  <2> QED BY SessionAssumption DEF SetupPaysItself, Own, SessionTypes
<1>14. Counted'
  <2>1. ~Undeposited /\ Undeposited'
    BY <1>1, <1>2, <1>3, <1>5 DEF Undeposited, Created
  <2>2. Unsold' <=> Unsold
    BY <1>2, <1>4, SessionAssumption DEF Unsold, Created
  <2>3. landed'["create"] = landed["create"] + 1 /\ landed'["mint"] = landed["mint"] /\ landed'["sell"] = landed["sell"]
    BY DEF SessionTypes, StepNames
  <2>4. SetupPayments' = SetupPayments /\ Cardinality(SetupPayments) \in Nat
    BY FS_Subset, FS_CardinalityType DEF SessionTypes, SetupPayments
  <2>5. landed["create"] \in Nat /\ failed["setup"] \in Nat
    BY SessionAssumption DEF SessionTypes, StepNames
  <2> QED BY <2>1, <2>2, <2>3, <2>4, <2>5 DEF Counted
<1> QED BY <1>7, <1>9, <1>10, <1>11, <1>12, <1>13, <1>14

LEMMA LandKeeps ==
  ASSUME SessionInv, NEW f \in Forms, Land(f)
  PROVE  SessionInv'
<1>1. UNCHANGED <<address, data, optimistic, asking, failed, strayed>>
  BY DEF Land, accountVars, boundVars
<1>2. CASE Step(f) = "create"
  <2>1. PICK id \in AccountIds : /\ owner[id] = None /\ owner' = [owner EXCEPT ![id] = runs[f].wallet]
                                 /\ runs' = [runs EXCEPT ![f].sent = TRUE, ![f].created = id] /\ UNCHANGED paid
    BY <1>2 DEF Land
  <2>2. Running(f) /\ ~runs[f].sent /\ landed' = [landed EXCEPT !["create"] = @ + 1]
    BY <1>2 DEF Land
  <2> QED BY <1>1, <1>2, <2>1, <2>2, CreateKeeps
<1>3. CASE Step(f) # "create"
  <2>1. /\ runs' = [runs EXCEPT ![f].sent = TRUE] /\ UNCHANGED owner
        /\ paid' = IF Step(f) = "deposit" THEN paid \cup {<<runs[f].wallet, DepositTo(f), f>>} ELSE paid
    BY <1>3 DEF Land
  <2>2. Running(f) /\ ~runs[f].sent /\ landed' = [landed EXCEPT ![Step(f)] = @ + 1]
    BY DEF Land
  <2> QED BY <1>1, <1>3, <2>1, <2>2, MinedKeeps
<1> QED BY <1>2, <1>3

\* A run is over, and none of the others moves.
LEMMA OverKeeps ==
  ASSUME SessionInv, NEW f \in Forms, runs[f] # NoRun, runs' = [runs EXCEPT ![f] = NoRun],
         failed' \in [Forms -> Nat], \A g \in Forms : failed[g] <= failed'[g],
         ~(f = "setup" /\ Undeposited) \/ failed'[f] = failed[f] + 1,
         ~(f = "write" /\ Unsold) \/ failed'[f] = failed[f] + 1,
         UNCHANGED <<chainVars, asking>>
  PROVE  AskedIsIdle' /\ CreatedIsOwn' /\ SetupPaysItself' /\ UnpaidYet' /\ Counted'
<1> USE DEF SessionInv
<1>1. runs'[f] = NoRun /\ \A g \in Forms : g # f => runs'[g] = runs[g]
  BY DEF SessionTypes
<1>2. /\ f = "setup" => ~Created("setup")' /\ ~Undeposited'
      /\ f = "write" => ~Unsold'
  BY <1>1 DEF Created, Undeposited, Unsold
<1>3. /\ f # "setup" => (Created("setup")' <=> Created("setup")) /\ (Undeposited' <=> Undeposited)
      /\ f # "setup" => runs'["setup"] = runs["setup"]
      /\ f # "write" => (Unsold' <=> Unsold)
  BY <1>1, SessionAssumption DEF Created, Undeposited, Unsold
<1>4. UNCHANGED <<owner, paid, landed, SetupPayments, asking>>
  BY DEF chainVars, SetupPayments
<1>5. AskedIsIdle'
  BY <1>1, <1>4, SessionAssumption DEF AskedIsIdle
<1>6. CreatedIsOwn' /\ SetupPaysItself' /\ UnpaidYet'
  BY <1>2, <1>3, <1>4 DEF CreatedIsOwn, SetupPaysItself, Own, UnpaidYet
<1>7. Counted'
  <2>1. Cardinality(SetupPayments) \in Nat
    BY FS_Subset, FS_CardinalityType DEF SessionTypes, SetupPayments
  <2>2. /\ landed["create"] \in Nat /\ landed["mint"] \in Nat /\ landed["sell"] \in Nat
        /\ failed["setup"] \in Nat /\ failed["write"] \in Nat
        /\ failed'["setup"] \in Nat /\ failed'["write"] \in Nat
        /\ failed["setup"] <= failed'["setup"] /\ failed["write"] <= failed'["write"]
    BY SessionAssumption DEF SessionTypes, StepNames
  <2>3. landed["create"] <= Cardinality(SetupPayments) + failed'["setup"] + (IF Undeposited' THEN 1 ELSE 0)
    <3>1. CASE f = "setup"
      BY <3>1, <1>2, <2>1, <2>2 DEF Counted
    <3>2. CASE f # "setup"
      BY <3>2, <1>3, <2>1, <2>2 DEF Counted
    <3> QED BY <3>1, <3>2
  <2>4. landed["mint"] <= landed["sell"] + failed'["write"] + (IF Unsold' THEN 1 ELSE 0)
    <3>1. CASE f = "write"
      BY <3>1, <1>2, <2>2 DEF Counted
    <3>2. CASE f # "write"
      BY <3>2, <1>3, <2>2 DEF Counted
    <3> QED BY <3>1, <3>2
  <2> QED BY <2>3, <2>4, <1>4 DEF Counted
<1> QED BY <1>5, <1>6, <1>7

LEMMA FailKeeps ==
  ASSUME SessionInv, NEW f \in Forms, Fail(f)
  PROVE  SessionInv'
<1>1. runs[f] # NoRun
  BY RunningHasRun DEF Fail, SessionInv
<1>2. UNCHANGED <<chainVars, address, data, optimistic, asking, strayed>>
  BY DEF Fail, accountVars
<1>3. runs' = [runs EXCEPT ![f] = NoRun] /\ failed' = [failed EXCEPT ![f] = @ + 1]
  BY DEF Fail
<1>4. failed' \in [Forms -> Nat] /\ (\A g \in Forms : failed[g] <= failed'[g]) /\ failed'[f] = failed[f] + 1
  BY <1>3 DEF SessionInv, SessionTypes
<1>5. SessionTypes' /\ ReadsAreOwn'
  BY <1>2, <1>3, <1>4 DEF SessionInv, SessionTypes, ReadsAreOwn, Own, chainVars
<1> QED BY <1>1, <1>2, <1>3, <1>4, <1>5, OverKeeps DEF SessionInv

LEMMA FinishKeeps ==
  ASSUME SessionInv, NEW f \in Forms, Finish(f)
  PROVE  SessionInv'
<1>1. runs[f] # NoRun /\ runs[f].i > Len(Steps[f]) /\ runs' = [runs EXCEPT ![f] = NoRun]
  BY DEF Finish
<1>2. UNCHANGED <<chainVars, address, asking, failed>> /\ data' = [data EXCEPT ![address] = Own(address)]
  BY DEF Finish
<1>3. runs[f].i > 3 \/ f \notin {"setup", "write"}
  BY <1>1, StepsOfForms
<1>4. runs[f].i \in Int
  <2>1. Len(Steps[f]) \in Nat
    BY StepsOfForms, SessionAssumption
  <2> QED BY <1>1, <2>1 DEF SessionInv, SessionTypes, RunsOf
<1>5. ~(f = "setup" /\ Undeposited) /\ ~(f = "write" /\ Unsold)
  BY <1>3, <1>4 DEF Undeposited, Unsold
<1>6. failed' \in [Forms -> Nat] /\ \A g \in Forms : failed[g] <= failed'[g]
  BY <1>2 DEF SessionInv, SessionTypes
<1>7. AskedIsIdle' /\ CreatedIsOwn' /\ SetupPaysItself' /\ UnpaidYet' /\ Counted'
  BY <1>1, <1>2, <1>5, <1>6, OverKeeps
<1>8. f = "setup" => runs[f].created \in AccountIds /\ owner[runs[f].created] = runs[f].wallet
  BY <1>1, <1>3, <1>4 DEF SessionInv, CreatedIsOwn, Created
<1>9. /\ f = "setup" => optimistic' = optimistic \cup {runs[f].created} /\ strayed' = (strayed \/ runs[f].wallet # address)
      /\ f # "setup" => UNCHANGED <<optimistic, strayed>>
  BY DEF Finish, Selecting
<1>10. optimistic' \subseteq AccountIds /\ strayed' \in BOOLEAN
  BY <1>8, <1>9 DEF SessionInv, SessionTypes
<1>11. data' \in [Wallets -> SUBSET AccountIds]
  BY <1>2 DEF SessionInv, SessionTypes, Own
<1>12. SessionTypes'
  BY <1>1, <1>2, <1>10, <1>11 DEF SessionInv, SessionTypes, chainVars
<1>13. \A w \in Wallets : Own(w)' = Own(w)
  BY <1>2 DEF Own, chainVars
<1>14. \A w \in Wallets : data'[w] = IF w = address THEN Own(address) ELSE data[w]
  BY <1>2 DEF SessionInv, SessionTypes
<1>15. strayed' \/ optimistic' \subseteq Own(address)
  <2>1. f = "setup" /\ ~strayed' => ~strayed /\ runs[f].wallet = address
    BY <1>9
  <2>2. ~strayed => optimistic \subseteq Own(address)
    BY DEF SessionInv, ReadsAreOwn
  <2>3. f = "setup" /\ ~strayed' => runs[f].created \in Own(address)
    BY <2>1, <1>8 DEF Own
  <2>4. CASE f = "setup"
    BY <2>1, <2>2, <2>3, <2>4, <1>9
  <2>5. CASE f # "setup"
    BY <2>2, <2>5, <1>9
  <2> QED BY <2>4, <2>5
<1>16. ReadsAreOwn'
  <2>1. address' = address /\ Own(address') = Own(address) /\ address \in Wallets
    BY <1>2 DEF SessionInv, SessionTypes
  <2>2. \A w \in Wallets : data'[w] \subseteq Own(w)'
    BY <1>13, <1>14 DEF SessionInv, ReadsAreOwn
  <2>3. strayed' \/ optimistic' \subseteq {id \in AccountIds : owner'[id] = address'}
    BY <1>2, <1>15 DEF Own, chainVars
  <2> QED BY <2>2, <2>3 DEF ReadsAreOwn, Own
<1> QED BY <1>7, <1>12, <1>16 DEF SessionInv

\* THEOREM.  Whatever wallets are connected, accounts selected and runs failed in
\* between, for any number of each: the selected account belongs to the connected
\* wallet or strayed, a setup deposits to the account its own wallet created, and
\* what is left over comes from runs that failed.
THEOREM SessionsStaySafe == SessionSpec => []SessionSafe
<1>1. SessionInv /\ [SessionNext]_sessionVars => SessionInv'
  <2> SUFFICES ASSUME SessionInv, [SessionNext]_sessionVars PROVE SessionInv'
    OBVIOUS
  <2>1. ASSUME NEW w \in Wallets, Connect(w) PROVE SessionInv'
    BY <2>1, ConnectKeeps
  <2>2. CASE Refetch
    BY <2>2, RefetchKeeps
  <2>3. CASE Cancel
    BY <2>3, CancelKeeps
  <2>4. ASSUME NEW id \in AccountIds, Select(id) PROVE SessionInv'
    BY <2>4, SelectKeeps
  <2>5. ASSUME NEW f \in Forms, Press(f) \/ Accept(f) \/ Skip(f) \/ Land(f) \/ Receipt(f) \/ Fail(f) \/ Finish(f)
        PROVE  SessionInv'
    BY <2>5, PressKeeps, AcceptKeeps, SkipKeeps, LandKeeps, ReceiptKeeps, FailKeeps, FinishKeeps
  <2>6. CASE UNCHANGED sessionVars
    <3>1. UNCHANGED <<chainVars, address, accountVars, asking, runs, boundVars>>
      BY <2>6 DEF sessionVars
    <3>2. SessionTypes' /\ ReadsAreOwn'
      BY <3>1 DEF SessionInv, SessionTypes, ReadsAreOwn, Own, chainVars, accountVars, boundVars
    <3>3. AskedIsIdle' /\ CreatedIsOwn' /\ SetupPaysItself' /\ UnpaidYet' /\ Counted'
      BY <3>1, RunsUntouched DEF SessionInv, chainVars, boundVars
    <3> QED BY <3>2, <3>3 DEF SessionInv
  <2> QED BY <2>1, <2>2, <2>3, <2>4, <2>5, <2>6 DEF SessionNext
<1>2. SessionInv => SessionSafe
  <2> SUFFICES ASSUME SessionInv PROVE SessionSafe
    OBVIOUS
  <2> USE DEF SessionInv
  <2>1. SelectedIsOwnOrStrayed
    <3>1. strayed \/ accounts \subseteq Own(address)
      BY DEF ReadsAreOwn, accounts, SessionTypes
    <3>2. selected # None => selected \in accounts
      BY SelectedIsListed
    <3> QED BY <3>1, <3>2 DEF SelectedIsOwnOrStrayed, SelectedIsOwn, Own
  <2>2. Cardinality(SetupPayments) \in Nat
    BY FS_Subset, FS_CardinalityType DEF SessionTypes, SetupPayments
  <2>3. /\ landed["create"] \in Nat /\ landed["mint"] \in Nat /\ landed["sell"] \in Nat
        /\ failed["setup"] \in Nat /\ failed["write"] \in Nat
    BY SessionAssumption DEF SessionTypes, StepNames
  <2>4. (Undeposited => Active("setup") = 1) /\ (Unsold => Active("write") = 1)
    BY DEF Undeposited, Unsold, Created, Active
  <2>5. Active("setup") \in {0, 1} /\ Active("write") \in {0, 1}
    BY DEF Active
  <2>6. landed["create"] - Cardinality(SetupPayments) <= failed["setup"] + Active("setup")
    BY <2>2, <2>3, <2>4, <2>5 DEF Counted
  <2>7. landed["mint"] - landed["sell"] <= failed["write"] + Active("write")
    BY <2>3, <2>4, <2>5 DEF Counted
  <2>8. LeftoversFromFailures
    BY <2>6, <2>7 DEF LeftoversFromFailures, SetupPayments
  <2> QED BY <2>1, <2>8 DEF SessionSafe
<1> QED BY SessionStarts, <1>1, <1>2, PTL DEF SessionSpec

-----------------------------------------------------------------------------
(* Listing                                                                 *)

RuleSets ==
  [asset : BOOLEAN, product : {"ENABLED", "DISABLED"}, paused : BOOLEAN, closeOnly : BOOLEAN,
   usable : SUBSET ListingConfigs, riskSet : RiskIds, adapter : {"enabled", "disabled"}]

ListingTypes ==
  /\ \A s \in listed : s.expiry \in Int
  /\ clock \in Nat
  /\ rules \in RuleSets
  /\ hat \in Hats

\* Groups in terms of the identities of series.
GroupsExact ==
  /\ \A s, t \in listed : SeriesId(s) = SeriesId(t) => s = t
  /\ \A g \in DOMAIN groups : \A s \in groups[g] : s \in listed /\ GroupId(s) = g
  /\ \A s \in listed : GroupId(s) \in DOMAIN groups /\ s \in groups[GroupId(s)]
  /\ \A g \in DOMAIN groups : IsFiniteSet(groups[g]) /\ Cardinality(groups[g]) \in 1..MaxPerGroup

\* Every market has a book of its own series, open or not.
MarketsFit == \A s \in DOMAIN markets : s \in listed /\ markets[s].base = s /\ markets[s].quote = "asset"

ListingInv == ListingTypes /\ GroupsExact /\ MarketsFit /\ BuilderIsAccepted /\ AdminIsAccepted

LEMMA ListingStarts == ListingInit => ListingInv
<1> SUFFICES ASSUME ListingInit PROVE ListingInv
  OBVIOUS
<1>1. PICK s \in Terms : /\ s.expiry \in MinTime..MaxTime
                         /\ listed = {s} /\ groups = [g \in {GroupId(s)} |-> {s}]
  BY DEF ListingInit
<1>2. ListingTypes
  <2>1. rules.riskSet \in RiskIds
    BY DEF ListingInit, Terms
  <2>2. rules \in RuleSets
    BY <2>1 DEF ListingInit, RuleSets
  <2> QED BY <1>1, <2>2, ListingAssumption DEF ListingInit, ListingTypes
<1>3. GroupsExact
  <2>1. IsFiniteSet({s}) /\ Cardinality({s}) = 1
    BY FS_Singleton
  <2>2. 1 \in 1..MaxPerGroup
    BY ListingAssumption
  <2> QED BY <1>1, <2>1, <2>2 DEF GroupsExact
<1>4. MarketsFit
  BY DEF ListingInit, MarketsFit
<1>5. BuilderIsAccepted /\ AdminIsAccepted
  BY DEF ListingInit, BuilderIsAccepted, AdminIsAccepted
<1> QED BY <1>2, <1>3, <1>4, <1>5 DEF ListingInv

\* A series whose creation nothing refuses is new, in time, and its group has room.
LEMMA CreationAllowed ==
  ASSUME NEW who, NEW s, CreateRefused(who, s) = {}
  PROVE  /\ s.expiry \in clock + MinTime..clock + MaxTime
         /\ ~\E t \in listed : SeriesId(t) = SeriesId(s)
         /\ ~(GroupId(s) \in DOMAIN groups /\ Cardinality(groups[GroupId(s)]) >= MaxPerGroup)
BY DEF CreateRefused, Since

LEMMA StoreKeeps ==
  ASSUME GroupsExact, NEW s, NEW who, CreateRefused(who, s) = {}, Store(s)
  PROVE  GroupsExact' /\ listed' = listed \cup {s}
<1> DEFINE g == GroupId(s)
<1>1. listed' = listed \cup {s}
  BY DEF Store
<1>2. /\ DOMAIN groups' = DOMAIN groups \cup {g}
      /\ \A h \in DOMAIN groups : h # g => groups'[h] = groups[h]
      /\ groups'[g] = (IF g \in DOMAIN groups THEN groups[g] ELSE {}) \cup {s}
  BY DEF Store
<1>3. IsFiniteSet(groups'[g]) /\ Cardinality(groups'[g]) \in 1..MaxPerGroup
  <2>1. CASE g \in DOMAIN groups
    <3>1. IsFiniteSet(groups[g]) /\ Cardinality(groups[g]) \in 1..MaxPerGroup
      BY <2>1 DEF GroupsExact
    <3>2. ~(Cardinality(groups[g]) >= MaxPerGroup)
      BY <2>1, CreationAllowed
    <3>3. groups'[g] = groups[g] \cup {s}
      BY <2>1, <1>2
    <3>4. IsFiniteSet(groups'[g]) /\ (Cardinality(groups'[g]) = Cardinality(groups[g]) \/ Cardinality(groups'[g]) = Cardinality(groups[g]) + 1)
      BY <3>1, <3>3, FS_AddElement
    <3> QED BY <3>1, <3>2, <3>4, ListingAssumption
  <2>2. CASE g \notin DOMAIN groups
    <3>1. groups'[g] = {s}
      BY <2>2, <1>2
    <3>2. IsFiniteSet({s}) /\ Cardinality({s}) = 1
      BY FS_Singleton
    <3> QED BY <3>1, <3>2, ListingAssumption
  <2> QED BY <2>1, <2>2
<1>4. \A h \in DOMAIN groups' : IsFiniteSet(groups'[h]) /\ Cardinality(groups'[h]) \in 1..MaxPerGroup
  BY <1>2, <1>3 DEF GroupsExact
<1>5. \A t, u \in listed' : SeriesId(t) = SeriesId(u) => t = u
  BY <1>1, CreationAllowed DEF GroupsExact
<1>6. \A h \in DOMAIN groups' : \A t \in groups'[h] : t \in listed' /\ GroupId(t) = h
  BY <1>1, <1>2 DEF GroupsExact
<1>7. \A t \in listed' : GroupId(t) \in DOMAIN groups' /\ t \in groups'[GroupId(t)]
  BY <1>1, <1>2 DEF GroupsExact
<1> QED BY <1>1, <1>4, <1>5, <1>6, <1>7 DEF GroupsExact

\* The buttons of the pages.
LEMMA ListSeriesKeeps ==
  ASSUME ListingInv, NEW s, s.expiry \in Nat, ListSeries(s)
  PROVE  ListingInv'
<1> DEFINE refused == CreateRefused(hat, s) \cup Since(PageSize \notin ContractSizes, "ContractSize")
<1>3. /\ ListOffered(s) /\ Judged("list", refused) /\ UNCHANGED <<hat, rules, markets, clock, seen>>
      /\ IF refused = {} THEN Store(s) ELSE UNCHANGED <<listed, groups>>
  BY DEF ListSeries
<1>5. GroupsExact' /\ listed \subseteq listed' /\ listed' \subseteq listed \cup {s}
  <2>1. CASE refused = {}
    <3>1. CreateRefused(hat, s) = {}
      BY <2>1
    <3>2. Store(s)
      BY <2>1, <1>3
    <3> QED BY <3>1, <3>2, StoreKeeps DEF ListingInv
  <2>2. CASE refused # {}
    BY <2>2, <1>3 DEF ListingInv, GroupsExact
  <2> QED BY <2>1, <2>2
<1>6. ListingTypes' /\ MarketsFit'
  BY <1>3, <1>5 DEF ListingInv, ListingTypes, MarketsFit
<1>7. AdminIsAccepted'
  BY <1>3 DEF AdminIsAccepted, Judged
<1>8. SeenNow /\ PageSize \in ContractSizes =>
        refused \subseteq {"ActionPaused", "AssetNotApproved", "SettlementConfig", "RiskSet", "GroupFull"}
  <2> SUFFICES ASSUME SeenNow, PageSize \in ContractSizes
               PROVE  refused \subseteq {"ActionPaused", "AssetNotApproved", "SettlementConfig", "RiskSet", "GroupFull"}
    OBVIOUS
  <2>1. seen.listed = listed /\ seen.rules.product = rules.product /\ seen.clock = clock
    BY DEF SeenNow, Visible
  <2>2. hat = "seriesCreator" /\ rules.product = "ENABLED" /\ ~\E t \in listed : SeriesId(t) = SeriesId(s)
    BY <1>3, <2>1 DEF ListOffered
  <2>3. s.strike \in MinStrike..MaxStrike
    BY <1>3 DEF ListOffered, InBounds
  <2>4. s.expiry > clock + MinTime /\ s.expiry <= clock + MaxTime
    BY <1>3, <2>1 DEF ListOffered, InBounds
  <2>5. s.expiry \in clock + MinTime..clock + MaxTime
    BY <2>4, ListingAssumption DEF ListingInv, ListingTypes
  <2> QED BY <2>2, <2>3, <2>5 DEF CreateRefused, Since
<1>9. BuilderIsAccepted'
  BY <1>3, <1>8 DEF BuilderIsAccepted, Judged
<1> QED BY <1>5, <1>6, <1>7, <1>9 DEF ListingInv

\* A button of the admin page that is refused by nothing its page could have known,
\* and changes the rules and the markets within their types.
LEMMA AdminKeeps ==
  ASSUME ListingInv, NEW button, NEW offered, NEW refused, NEW then, NEW market,
         Admin(button, offered, refused, then, market), button # "list",
         then \in RuleSets,
         refused = {} => \A s \in DOMAIN market : s \in listed /\ market[s].base = s /\ market[s].quote = "asset",
         SeenNow /\ ~RolesDiffer(button) => refused \subseteq {"MarketTokens", "MarketExpired"}
  PROVE  ListingInv'
<1>1. UNCHANGED <<hat, listed, groups, clock>> /\ Judged(button, refused)
  BY DEF Admin
<1>2. rules' = (IF refused = {} THEN then ELSE rules) /\ markets' = (IF refused = {} THEN market ELSE markets)
  BY DEF Admin
<1>3. ListingTypes'
  BY <1>1, <1>2 DEF ListingInv, ListingTypes
<1>4. GroupsExact'
  BY <1>1 DEF ListingInv, GroupsExact
<1>5. MarketsFit'
  BY <1>1, <1>2 DEF ListingInv, MarketsFit
<1>6. BuilderIsAccepted'
  BY <1>1 DEF BuilderIsAccepted, Judged
<1>7. AdminIsAccepted'
  BY <1>1 DEF AdminIsAccepted, Judged, RolesDiffer
<1> QED BY <1>3, <1>4, <1>5, <1>6, <1>7 DEF ListingInv

\* Switching off is everybody's whom the page lets.
LEMMA SwitchAllowed ==
  ASSUME NEW on \in BOOLEAN, NEW others, on => hat = "governance", ~on => hat \in others \cup {"governance"}
  PROVE  SwitchRefused(hat, on, others) = {}
BY DEF SwitchRefused, Since

LEMMA ButtonsKeep ==
  ASSUME ListingInv, PressAdapter \/ PressEnabled \/ PressCloseOnly \/ PressStatus \/ PressRegister
  PROVE  ListingInv'
<1>1. /\ rules \in RuleSets /\ hat \in Hats
      /\ rules.product \in {"ENABLED", "DISABLED"} /\ rules.adapter \in {"enabled", "disabled"}
      /\ \A s \in DOMAIN markets : s \in listed /\ markets[s].base = s /\ markets[s].quote = "asset"
  BY DEF ListingInv, ListingTypes, MarketsFit, RuleSets
<1>2. SeenNow => seen.listed = listed /\ DOMAIN seen.markets = DOMAIN markets
  BY DEF SeenNow
<1>3. CASE PressAdapter
  <2>1. PICK on \in BOOLEAN :
          Admin("adapter", IF on THEN MayEnable /\ seen.rules.adapter # "enabled"
                           ELSE CanDisable /\ seen.rules.adapter # "disabled",
                AdapterRefused(hat, on), [rules EXCEPT !.adapter = IF on THEN "enabled" ELSE "disabled"], markets)
    BY <1>3 DEF PressAdapter
  <2>2. IF on THEN hat = "governance" ELSE hat \in {"venueAdmin", "governance", "guardian"}
    BY <2>1 DEF Admin, MayEnable, CanDisable
  <2>3. SwitchRefused(hat, on, {"guardian", "venueAdmin"}) = {}
    BY <2>2, SwitchAllowed
  <2>4. AdapterRefused(hat, on) = {}
    BY <1>1, <2>3 DEF AdapterRefused, Since
  <2>5. [rules EXCEPT !.adapter = IF on THEN "enabled" ELSE "disabled"] \in RuleSets
    BY <1>1 DEF RuleSets
  <2> QED BY <1>1, <2>1, <2>4, <2>5, AdminKeeps
<1>4. CASE PressEnabled
  <2> DEFINE on == seen.rules.product # "ENABLED"
  <2>1. Admin("product", hat = "governance", EnabledRefused(hat, on),
              [rules EXCEPT !.product = IF on THEN "ENABLED" ELSE "DISABLED"], markets)
    BY <1>4 DEF PressEnabled
  <2>2. hat = "governance"
    BY <2>1 DEF Admin
  <2>3. EnabledRefused(hat, on) = {}
    BY <1>1, <2>2 DEF EnabledRefused, SwitchRefused, Since
  <2>4. [rules EXCEPT !.product = IF on THEN "ENABLED" ELSE "DISABLED"] \in RuleSets
    BY <1>1 DEF RuleSets
  <2> QED BY <1>1, <2>1, <2>3, <2>4, AdminKeeps
<1>5. CASE PressCloseOnly
  <2> DEFINE on == ~seen.rules.closeOnly
  <2>1. Admin("closeOnly", CanDisable, CloseOnlyRefused(hat, on), [rules EXCEPT !.closeOnly = on], markets)
    BY <1>5 DEF PressCloseOnly
  <2>2. hat \in {"venueAdmin", "governance", "guardian"}
    BY <2>1 DEF Admin, CanDisable
  <2>3. ~RolesDiffer("closeOnly") => CloseOnlyRefused(hat, on) = {}
    BY <2>2 DEF RolesDiffer, CloseOnlyRefused, SwitchRefused, Since
  <2>4. [rules EXCEPT !.closeOnly = on] \in RuleSets
    BY <1>1 DEF RuleSets
  <2> QED BY <1>1, <2>1, <2>3, <2>4, AdminKeeps
<1>6. CASE PressStatus
  <2>1. PICK s \in seen.listed, to \in {"ACTIVE", "INACTIVE"} :
          Admin("status", IsVenueAdmin /\ s \in DOMAIN seen.markets /\ (to = "INACTIVE" <=> seen.markets[s] = "ACTIVE"),
                StatusRefused(hat, s), rules,
                [t \in DOMAIN markets |-> IF t = s THEN [markets[t] EXCEPT !.status = to] ELSE markets[t]])
    BY <1>6 DEF PressStatus
  <2>2. IsVenueAdmin /\ s \in DOMAIN seen.markets
    BY <2>1 DEF Admin
  <2>3. SeenNow /\ ~RolesDiffer("status") => StatusRefused(hat, s) = {}
    BY <1>2, <2>2 DEF IsVenueAdmin, RolesDiffer, StatusRefused, Since
  <2> DEFINE after == [t \in DOMAIN markets |-> IF t = s THEN [markets[t] EXCEPT !.status = to] ELSE markets[t]]
  <2>4. \A t \in DOMAIN after : t \in listed /\ after[t].base = t /\ after[t].quote = "asset"
    BY <1>1
  <2> QED BY <1>1, <2>1, <2>3, <2>4, AdminKeeps
<1>7. CASE PressRegister
  <2>1. PICK s \in seen.listed, book \in BooksMade :
          Admin("register", IsVenueAdmin /\ s \notin DOMAIN seen.markets, RegisterRefused(hat, s, book), rules,
                [t \in DOMAIN markets \cup {s} |-> IF t = s THEN [base |-> book.base, quote |-> book.quote, status |-> "ACTIVE"]
                                                   ELSE markets[t]])
    BY <1>7 DEF PressRegister
  <2>2. IsVenueAdmin /\ s \notin DOMAIN seen.markets
    BY <2>1 DEF Admin
  <2>3. SeenNow /\ ~RolesDiffer("register") => RegisterRefused(hat, s, book) \subseteq {"MarketTokens", "MarketExpired"}
    BY <1>1, <1>2, <2>2 DEF IsVenueAdmin, RolesDiffer, RegisterRefused, Since
  <2> DEFINE after == [t \in DOMAIN markets \cup {s} |->
                         IF t = s THEN [base |-> book.base, quote |-> book.quote, status |-> "ACTIVE"] ELSE markets[t]]
  <2>4. RegisterRefused(hat, s, book) = {} => \A t \in DOMAIN after : t \in listed /\ after[t].base = t /\ after[t].quote = "asset"
    BY <1>1 DEF RegisterRefused, BookFits, Since
  <2> QED BY <1>1, <2>1, <2>3, <2>4, AdminKeeps
<1> QED BY <1>3, <1>4, <1>5, <1>6, <1>7

LEMMA ReadingKeeps ==
  ASSUME ListingInv, ReadPages
  PROVE  ListingInv'
BY DEF ReadPages, ListingInv, ListingTypes, GroupsExact, MarketsFit, BuilderIsAccepted, AdminIsAccepted

LEMMA OthersKeep ==
  ASSUME ListingInv, OthersList \/ Govern \/ OthersRegister \/ TimePasses
  PROVE  ListingInv'
<1>1. verdict' = NoVerdict /\ UNCHANGED hat
  BY DEF OthersList, Govern, OthersRegister, TimePasses, Elsewhere
<1>2. BuilderIsAccepted' /\ AdminIsAccepted'
  BY <1>1 DEF BuilderIsAccepted, AdminIsAccepted
<1>3. CASE OthersList
  <2>1. PICK s \in Terms : CreateRefused("seriesCreator", s) = {} /\ Store(s) /\ UNCHANGED <<rules, markets, clock>>
    BY <1>3 DEF OthersList
  <2>2. GroupsExact' /\ listed' = listed \cup {s}
    BY <2>1, StoreKeeps DEF ListingInv
  <2>4. s.expiry \in Expiries
    BY DEF Terms
  <2>5. \A e \in Expiries : e \in Int
    BY ListingAssumption
  <2>3. s.expiry \in Int
    BY <2>4, <2>5
  <2> QED BY <1>1, <1>2, <2>1, <2>2, <2>3 DEF ListingInv, ListingTypes, MarketsFit
<1>4. CASE Govern
  <2>1. rules' \in RuleSets
    <3>1. rules \in RuleSets
      BY DEF ListingInv, ListingTypes
    <3>2. /\ [rules EXCEPT !.asset = ~rules.asset] \in RuleSets
          /\ [rules EXCEPT !.product = "ENABLED"] \in RuleSets
          /\ [rules EXCEPT !.paused = ~rules.paused] \in RuleSets
      BY <3>1 DEF RuleSets
    <3>3. /\ [rules EXCEPT !.adapter = "enabled"] \in RuleSets
          /\ [rules EXCEPT !.closeOnly = FALSE] \in RuleSets
      BY <3>1 DEF RuleSets
    <3>4. /\ \A r \in RiskIds : [rules EXCEPT !.riskSet = r] \in RuleSets
          /\ \A c \in ListingConfigs : [rules EXCEPT !.usable = rules.usable \ {c}] \in RuleSets
      BY <3>1 DEF RuleSets
    <3> QED BY <1>4, <3>2, <3>3, <3>4 DEF Govern
  <2>2. UNCHANGED <<listed, groups, markets, clock>>
    BY <1>4 DEF Govern
  <2> QED BY <1>1, <1>2, <2>1, <2>2 DEF ListingInv, ListingTypes, GroupsExact, MarketsFit
<1>5. CASE OthersRegister
  <2>1. PICK s \in listed, book \in BooksMade :
          /\ RegisterRefused("venueAdmin", s, book) = {}
          /\ markets' = [t \in DOMAIN markets \cup {s} |->
                           IF t = s THEN [base |-> book.base, quote |-> book.quote, status |-> "ACTIVE"] ELSE markets[t]]
          /\ UNCHANGED <<rules, listed, groups, clock>>
    BY <1>5 DEF OthersRegister
  <2>2. book.base = s /\ book.quote = "asset"
    BY <2>1 DEF RegisterRefused, BookFits, Since
  <2>3. MarketsFit'
    BY <2>1, <2>2 DEF ListingInv, MarketsFit
  <2> QED BY <1>1, <1>2, <2>1, <2>3 DEF ListingInv, ListingTypes, GroupsExact
<1>6. CASE TimePasses
  <2>1. clock' = clock + 1 /\ UNCHANGED <<rules, listed, groups, markets>>
    BY <1>6 DEF TimePasses
  <2> QED BY <1>1, <1>2, <2>1 DEF ListingInv, ListingTypes, GroupsExact, MarketsFit
<1> QED BY <1>3, <1>4, <1>5, <1>6

\* THEOREM.  However many series, books and settings governance, the pages and
\* everybody else make, in whatever order: no two series have the same economic
\* terms, each is in the one group of its expiry, what the router trades is the
\* listed option in its asset before its expiry, and a page that is up to date
\* offers what the contracts accept.
THEOREM ListingIsSound == ListingSpec => []ListingSound
<1>1. ListingInv /\ [ListingNext]_listingVars => ListingInv'
  <2> SUFFICES ASSUME ListingInv, [ListingNext]_listingVars PROVE ListingInv'
    OBVIOUS
  <2>1. CASE PressList
    <3>1. PICK kind \in Kinds, strike \in Strikes, expiry \in Expiries : \E near \in Nearest(kind, strike) :
            ListSeries([kind |-> kind, strike |-> strike, expiry |-> expiry, config |-> near.config, risk |-> near.risk])
      BY <2>1 DEF PressList
    <3>2. expiry \in Nat
      BY ListingAssumption
    <3> QED BY <3>1, <3>2, ListSeriesKeeps
  <2>2. CASE UNCHANGED listingVars
    BY <2>2 DEF listingVars, ListingInv, ListingTypes, GroupsExact, MarketsFit, BuilderIsAccepted, AdminIsAccepted, RolesDiffer
  <2> QED BY <2>1, <2>2, ReadingKeeps, ButtonsKeep, OthersKeep DEF ListingNext
<1>2. ListingInv => ListingSound
  <2> SUFFICES ASSUME ListingInv PROVE ListingSound
    OBVIOUS
  <2> USE DEF ListingInv
  <2>1. \A s, t \in listed : s # t => <<s.kind, s.strike, s.expiry, s.config>> # <<t.kind, t.strike, t.expiry, t.config>>
    BY DEF GroupsExact, SeriesId
  <2>2. UNION {groups[g] : g \in DOMAIN groups} = listed
    BY DEF GroupsExact
  <2>3. \A g \in DOMAIN groups : /\ Cardinality(groups[g]) \in 1..MaxPerGroup
                                 /\ \A s \in groups[g] : <<s.expiry, s.config>> = <<g.expiry, g.config>>
    BY DEF GroupsExact, GroupId
  <2>4. RoutesMatch
    BY DEF RoutesMatch, MarketsFit, Tradable, StatusOf, ListingTypes
  <2> QED BY <2>1, <2>2, <2>3, <2>4 DEF ListingSound, RegistryExact
<1> QED BY ListingStarts, <1>1, <1>2, PTL DEF ListingSpec

-----------------------------------------------------------------------------
(* The page of a series                                                    *)

Worlds ==
  [stage : {"ACTIVE", "EXPIRED", "ORACLE_STALLED", "FINALIZED", "REDEEMABLE"},
   othersShort : Nat, elsewhere : Nat, tradable : BOOLEAN, closeOnly : BOOLEAN, prices : BOOLEAN,
   opened : BOOLEAN, cash : Int, position : Int, sibling : Nat, stress : {1, 4}, credit : BOOLEAN,
   tokens : Int, paused : BOOLEAN, seeded : BOOLEAN]

\* Whole parts: q of them fit into a if they do not exceed it.
LEMMA PartsFit ==
  ASSUME NEW a \in Nat, NEW b \in Nat \ {0}, NEW q \in Nat
  PROVE  q <= a \div b <=> q * b <= a
<1>1. a = b * (a \div b) + (a % b) /\ (a % b) \in 0..b - 1 /\ (a \div b) \in Nat
  BY Z3
<1> DEFINE d == a \div b
<1>2. CASE q <= d
  <2>1. PICK e \in Nat : d = q + e
    BY <1>1, <1>2
  <2>2. b * d = b * q + b * e /\ b * e \in Nat /\ b * q = q * b /\ b * q \in Nat
    BY <2>1
  <2> QED BY <1>1, <1>2, <2>2
<1>3. CASE ~(q <= d)
  <2>0. q - d - 1 \in Nat /\ q = d + 1 + (q - d - 1)
    BY <1>1, <1>3
  <2>1. PICK e \in Nat : q = d + 1 + e
    BY <2>0
  <2>2. q * b = b * d + b + b * e /\ b * e \in Nat /\ b * d \in Nat
    BY <1>1, <2>1
  <2> QED BY <1>1, <1>3, <2>2
<1> QED BY <1>2, <1>3

\* What is read on a page that is up to date.
LEMMA ShownIsWorld ==
  ASSUME world \in Worlds, Current
  PROVE  /\ shown.stage = world.stage /\ shown.othersShort = world.othersShort
         /\ shown.elsewhere = world.elsewhere /\ shown.tradable = world.tradable
         /\ shown.closeOnly = world.closeOnly /\ shown.prices = world.prices
         /\ shown.opened = world.opened /\ shown.cash = world.cash /\ shown.position = world.position
         /\ shown.sibling = world.sibling /\ shown.stress = world.stress /\ shown.credit = world.credit
         /\ shown.tokens = world.tokens
BY DEF Worlds, Current, Hidden

LEMMA OfferedOfWorld ==
  ASSUME world \in Worlds, Current, NEW action \in Actions, NEW q \in Amounts
  PROVE  Offered(action, q) <=> Available(action, world) /\ Allowed(action, q, world)
<1>1. GroupState(shown) = GroupState(world)
  BY ShownIsWorld DEF GroupState
<1>2. HealthOf(shown) = HealthOf(world)
  BY ShownIsWorld DEF HealthOf, InitialMargin, MaintenanceMargin
<1>3. Capacity(shown) = Capacity(world)
  BY ShownIsWorld DEF Capacity, OpenInterest, ShortNotional
<1>4. PreviewMint(shown, q) <=> PreviewMint(world, q)
  BY ShownIsWorld DEF PreviewMint, InitialMargin, FeeFor
<1>5. Available(action, shown) <=> Available(action, world)
  BY ShownIsWorld, <1>1, <1>2 DEF Available, Actions
<1>6. Allowed(action, q, shown) <=> Allowed(action, q, world)
  BY ShownIsWorld, <1>3, <1>4 DEF Allowed, WriteAllowed, ManageAllowed, SellAllowed, RedeemAllowed, Actions
<1> QED BY <1>5, <1>6 DEF Offered

\* Options that the caps still allow.
LEMMA CapacityIsWhatCapsAllow ==
  ASSUME world \in Worlds, NEW q \in Amounts
  PROVE  /\ q <= Capacity(world) => ~OverCap(world, world.position - q)
         /\ world.position <= 0 /\ ~OverCap(world, world.position - q) => q <= Capacity(world)
<1> DEFINE after == [world EXCEPT !.position = world.position - q]
           oi == OpenInterest(world)
           room == Maximum(0, ShortCap - ShortNotional(world))
<1>1. /\ world.othersShort \in Nat /\ world.elsewhere \in Nat /\ world.position \in Int /\ q \in 1..2
      /\ OICap \in Nat /\ ShortCap \in Nat /\ Size \in Nat \ {0}
  BY PageAssumption DEF Worlds, Amounts
<1>2. after.position = world.position - q /\ after.othersShort = world.othersShort /\ after.elsewhere = world.elsewhere
  BY DEF Worlds
<1>3. oi \in Nat /\ OpenInterest(after) \in Nat /\ OpenInterest(after) <= oi + q
  BY <1>1, <1>2 DEF OpenInterest, Maximum
<1>4. world.position <= 0 => OpenInterest(after) = oi + q
  BY <1>1, <1>2 DEF OpenInterest, Maximum
<1>5. OpenInterest(after) * Size <= (oi + q) * Size
  <2>1. PICK e \in Nat : oi + q = OpenInterest(after) + e
    <3>1. oi + q - OpenInterest(after) \in Nat
      BY <1>1, <1>3
    <3> QED BY <3>1, <1>1, <1>3
  <2>2. (oi + q) * Size = OpenInterest(after) * Size + e * Size /\ e * Size \in Nat /\ OpenInterest(after) * Size \in Nat
    BY <1>1, <1>3, <2>1
  <2> QED BY <2>2
<1>6. (oi + q) * Size = oi * Size + q * Size /\ oi * Size \in Nat /\ q * Size \in Nat /\ q * Size > 0
  BY <1>1, <1>3
<1>7. ShortNotional(world) = oi * Size + world.elsewhere /\ ShortNotional(after) = OpenInterest(after) * Size + world.elsewhere
  BY <1>2 DEF ShortNotional
<1>8. room \in Nat /\ (q <= room \div Size <=> q * Size <= room)
  <2>1. room \in Nat
    BY <1>1, <1>6, <1>7 DEF Maximum
  <2> QED BY <1>1, <2>1, PartsFit
<1>9. q <= Capacity(world) <=> q <= OICap - oi /\ q * Size <= ShortCap - ShortNotional(world)
  <2>1. q <= Capacity(world) <=> q <= Maximum(0, OICap - oi) /\ q <= room \div Size
    <3>1. (room \div Size) \in Int /\ Maximum(0, OICap - oi) \in Int
      BY <1>1, <1>3, <1>8 DEF Maximum
    <3> QED BY <1>1, <3>1 DEF Capacity, Smallest
  <2>2. q <= Maximum(0, OICap - oi) <=> q <= OICap - oi
    BY <1>1, <1>3 DEF Maximum
  <2>3. q * Size <= room <=> q * Size <= ShortCap - ShortNotional(world)
    BY <1>1, <1>6, <1>7 DEF Maximum
  <2> QED BY <2>1, <2>2, <2>3, <1>8
<1>10. OverCap(world, world.position - q) <=> OpenInterest(after) > OICap \/ ShortNotional(after) > ShortCap
  BY DEF OverCap
<1>11. OpenInterest(after) * Size \in Nat
  BY <1>1, <1>3
<1>12. q <= Capacity(world) => ~OverCap(world, world.position - q)
  BY <1>1, <1>3, <1>5, <1>6, <1>7, <1>9, <1>10, <1>11
<1>13. world.position <= 0 /\ ~OverCap(world, world.position - q) => q <= Capacity(world)
  BY <1>1, <1>3, <1>4, <1>6, <1>7, <1>9, <1>10
<1> QED BY <1>12, <1>13

\* Opening needs no less than what stands.
LEMMA WritersAreHealthy ==
  ASSUME world \in Worlds, NEW q \in Amounts, world.position <= 0,
         world.cash - FeeFor(q) >= InitialMargin(world, world.position - q)
  PROVE  HealthOf(world) = "HEALTHY"
<1>1. /\ world.cash \in Int /\ world.position \in Int /\ world.sibling \in Nat /\ q \in 1..2
      /\ world.stress = 1 \/ world.stress = 4
  BY DEF Worlds, Amounts
<1>2. Uncovered(world.position - q, world.sibling) = q - world.position + world.sibling
  BY <1>1 DEF Uncovered, Maximum
<1>3. Uncovered(world.position, world.sibling) = world.sibling - world.position
  BY <1>1 DEF Uncovered, Maximum
<1>4. world.cash >= InitialMargin(world, world.position)
  BY <1>1, <1>2, <1>3 DEF InitialMargin, FeeFor
<1> QED BY <1>4 DEF HealthOf

LEMMA OffersAccepted ==
  ASSUME world \in Worlds, Current, NEW action \in Actions, NEW q \in Amounts, Offered(action, q)
  PROVE  Refusals(action, q) \subseteq Unforeseen(action)
<1>1. Available(action, world) /\ Allowed(action, q, world)
  BY OfferedOfWorld
<1>2. /\ world.position \in Int /\ world.tokens \in Int /\ world.cash \in Int /\ q \in 1..2
      /\ world.stage \in {"ACTIVE", "EXPIRED", "ORACLE_STALLED", "FINALIZED", "REDEEMABLE"}
  BY DEF Worlds, Amounts
<1>3. GroupState(world) = world.stage \/ (GroupState(world) = "ALL_SETTLED" /\ world.stage = "FINALIZED")
  BY DEF GroupState
<1>4. CASE action \in {"buy", "sell"}
  <2>1. world.stage = "ACTIVE" /\ world.tradable
    BY <1>1, <1>3, <1>4 DEF Available
  <2>2. action = "sell" => ~(world.tokens < q)
    BY <1>1, <1>2 DEF Allowed, SellAllowed
  <2> QED BY <1>4, <2>1, <2>2 DEF Refusals, When, Unforeseen
<1>5. CASE action = "write"
  <2>1. world.stage = "ACTIVE" /\ ~world.closeOnly /\ world.prices /\ world.opened
    BY <1>1, <1>3, <1>5 DEF Available
  <2>2. q <= Capacity(world) /\ PreviewMint(world, q)
    BY <1>1, <1>5 DEF Allowed, WriteAllowed
  <2>3. ~OverCap(world, world.position - q)
    BY <2>2, CapacityIsWhatCapsAllow
  <2>4. /\ InitialMargin(world, world.position - q) \in Int
    <3>1. world.stress \in {1, 4} /\ world.sibling \in Nat
      BY DEF Worlds
    <3>2. Uncovered(world.position - q, world.sibling) \in Int
      BY <1>2, <3>1 DEF Uncovered, Maximum
    <3> QED BY <3>1, <3>2 DEF InitialMargin
  <2>5. ~(world.cash < FeeFor(q) \/ world.cash - FeeFor(q) < InitialMargin(world, world.position - q))
    BY <1>2, <2>2, <2>4 DEF PreviewMint, FeeFor
  <2> QED BY <1>5, <2>1, <2>3, <2>5 DEF Refusals, When, Unforeseen
<1>6. CASE action = "wrap"
  BY <1>1, <1>2, <1>3, <1>6 DEF Available, Allowed, ManageAllowed, Refusals, When, Unforeseen
<1>7. CASE action = "unwrap"
  BY <1>1, <1>2, <1>3, <1>7 DEF Available, Allowed, ManageAllowed, Refusals, When, Unforeseen
<1>8. CASE action = "close"
  <2>1. world.stage \notin {"FINALIZED", "REDEEMABLE"}
    BY <1>1, <1>3, <1>8 DEF Available
  <2>2. q <= -world.position /\ q <= world.tokens
    BY <1>1, <1>2, <1>8 DEF Allowed, ManageAllowed, Smallest
  <2> QED BY <1>2, <1>8, <2>1, <2>2 DEF Refusals, When, Unforeseen
<1>9. CASE action = "redeem"
  <2>1. world.stage = "REDEEMABLE"
    BY <1>1, <1>3, <1>9 DEF Available
  <2>2. ~(world.tokens < q)
    BY <1>1, <1>2, <1>9 DEF Allowed, RedeemAllowed
  <2> QED BY <1>9, <2>1, <2>2 DEF Refusals, When, Unforeseen
<1>10. CASE action = "claim"
  <2>1. world.stage = "REDEEMABLE" /\ world.credit
    BY <1>1, <1>3, <1>10 DEF Available
  <2> QED BY <1>10, <2>1 DEF Refusals, When, Unforeseen
<1> QED BY <1>4, <1>5, <1>6, <1>7, <1>8, <1>9, <1>10 DEF Actions

LEMMA NothingWithheld ==
  ASSUME world \in Worlds
  PROVE  AcceptedIsOffered
<1> SUFFICES ASSUME Current, NEW action \in Actions \ {"wrap"}, NEW q \in Amounts,
                    Refusals(action, q) = {}, action = "write" => world.position <= 0,
                    action = "redeem" => q = world.tokens, action \in {"buy", "claim"} => q = 1
             PROVE  Available(action, world) /\ Allowed(action, q, world)
  BY OfferedOfWorld DEF AcceptedIsOffered
<1>2. /\ world.position \in Int /\ world.tokens \in Int /\ world.cash \in Int /\ q \in 1..2
      /\ world.stage \in {"ACTIVE", "EXPIRED", "ORACLE_STALLED", "FINALIZED", "REDEEMABLE"}
  BY DEF Worlds, Amounts
<1>3. world.stage # "FINALIZED" => GroupState(world) = world.stage
  BY DEF GroupState
<1>4. CASE action = "buy"
  <2>1. world.tradable /\ world.stage = "ACTIVE"
    BY <1>4 DEF Refusals, When
  <2> QED BY <1>3, <1>4, <2>1 DEF Available, Allowed
<1>6. CASE action = "sell"
  <2>1. world.tradable /\ world.stage = "ACTIVE" /\ ~(world.tokens < q)
    BY <1>6 DEF Refusals, When
  <2>2. q <= world.tokens /\ world.tokens > 0
    BY <1>2, <2>1
  <2> QED BY <1>3, <1>6, <2>1, <2>2 DEF Available, Allowed, SellAllowed
<1>5. CASE action = "write"
  <2>1. /\ world.opened /\ world.stage = "ACTIVE" /\ ~world.closeOnly /\ world.prices
        /\ ~OverCap(world, world.position - q)
        /\ ~(world.cash < FeeFor(q) \/ world.cash - FeeFor(q) < InitialMargin(world, world.position - q))
    BY <1>5 DEF Refusals, When
  <2>2. q <= Capacity(world)
    BY <1>5, <2>1, CapacityIsWhatCapsAllow
  <2>3. /\ InitialMargin(world, world.position - q) \in Int
    <3>1. world.stress \in {1, 4} /\ world.sibling \in Nat
      BY DEF Worlds
    <3>2. Uncovered(world.position - q, world.sibling) \in Int
      BY <1>2, <3>1 DEF Uncovered, Maximum
    <3> QED BY <3>1, <3>2 DEF InitialMargin
  <2>4. PreviewMint(world, q)
    BY <1>2, <2>1, <2>3 DEF PreviewMint, FeeFor
  <2>5. HealthOf(world) = "HEALTHY"
    BY <1>2, <1>5, <2>1, <2>3, WritersAreHealthy DEF FeeFor
  <2> QED BY <1>3, <1>5, <2>1, <2>2, <2>4, <2>5 DEF Available, Allowed, WriteAllowed
<1>7. CASE action = "unwrap"
  <2>1. world.opened /\ world.stage = "ACTIVE" /\ ~(world.tokens < q)
    BY <1>7 DEF Refusals, When
  <2> QED BY <1>2, <1>3, <1>7, <2>1 DEF Available, Allowed, ManageAllowed
<1>8. CASE action = "close"
  <2>1. world.stage \notin {"FINALIZED", "REDEEMABLE"} /\ ~(world.position > -q) /\ ~(world.tokens < q)
    BY <1>8 DEF Refusals, When
  <2>2. q <= Smallest(-world.position, world.tokens)
    BY <1>2, <2>1 DEF Smallest
  <2> QED BY <1>2, <1>3, <1>8, <2>1, <2>2 DEF Available, Allowed, ManageAllowed
<1>9. CASE action = "redeem"
  <2>1. world.stage = "REDEEMABLE" /\ q = world.tokens /\ world.tokens > 0
    BY <1>2, <1>9 DEF Refusals, When
  <2> QED BY <1>3, <1>9, <2>1 DEF Available, Allowed, RedeemAllowed
<1>10. CASE action = "claim"
  <2>1. world.stage = "REDEEMABLE" /\ world.credit /\ q = 1
    BY <1>10 DEF Refusals, When
  <2> QED BY <1>3, <1>10, <2>1 DEF Available, Allowed
<1> QED BY <1>4, <1>5, <1>6, <1>7, <1>8, <1>9, <1>10 DEF Actions

\* A world with one part replaced.
LEMMA WorldsWith ==
  ASSUME NEW w \in Worlds
  PROVE  /\ \A x \in Int : [w EXCEPT !.tokens = x] \in Worlds
         /\ \A x \in Int : [w EXCEPT !.position = x] \in Worlds
         /\ \A x \in Int : [w EXCEPT !.cash = x] \in Worlds
         /\ \A x \in Nat : [w EXCEPT !.othersShort = x] \in Worlds
         /\ \A x \in Nat : [w EXCEPT !.elsewhere = x] \in Worlds
         /\ \A x \in Nat : [w EXCEPT !.sibling = x] \in Worlds
         /\ \A x \in BOOLEAN : [w EXCEPT !.credit = x] \in Worlds
         /\ \A x \in {"EXPIRED", "ORACLE_STALLED", "FINALIZED", "REDEEMABLE"} : [w EXCEPT !.stage = x] \in Worlds
<1>1. \A x \in Int : [w EXCEPT !.tokens = x] \in Worlds
  BY DEF Worlds
<1>2. \A x \in Int : [w EXCEPT !.position = x] \in Worlds
  BY DEF Worlds
<1>3. \A x \in Int : [w EXCEPT !.cash = x] \in Worlds
  BY DEF Worlds
<1>4. \A x \in Nat : [w EXCEPT !.othersShort = x] \in Worlds
  BY DEF Worlds
<1>5. \A x \in Nat : [w EXCEPT !.elsewhere = x] \in Worlds
  BY DEF Worlds
<1>6. \A x \in Nat : [w EXCEPT !.sibling = x] \in Worlds
  BY DEF Worlds
<1>7. \A x \in BOOLEAN : [w EXCEPT !.credit = x] \in Worlds
  BY DEF Worlds
<1>8. \A x \in {"EXPIRED", "ORACLE_STALLED", "FINALIZED", "REDEEMABLE"} : [w EXCEPT !.stage = x] \in Worlds
  BY DEF Worlds
<1> QED BY <1>1, <1>2, <1>3, <1>4, <1>5, <1>6, <1>7, <1>8

\* Two parts, or more, one after the other.
LEMMA WorldsWithMore ==
  ASSUME NEW w \in Worlds
  PROVE  /\ \A x, y \in Int : [w EXCEPT !.tokens = x, !.position = y] \in Worlds
         /\ \A x, y, z \in Int : [w EXCEPT !.tokens = x, !.position = y, !.cash = z] \in Worlds
         /\ \A x \in BOOLEAN, y \in Int : [w EXCEPT !.credit = x, !.cash = y] \in Worlds
         /\ \A x \in Int, y \in Nat : [w EXCEPT !.position = x, !.othersShort = y] \in Worlds
         /\ \A x \in BOOLEAN : [w EXCEPT !.credit = x, !.position = 0, !.sibling = 0, !.othersShort = 0] \in Worlds
         /\ \A x, y, z \in Nat : [w EXCEPT !.elsewhere = x, !.sibling = y, !.position = z] \in Worlds
         /\ \A x, y \in Int : [w EXCEPT !.stage = "EXPIRED", !.position = x, !.tokens = y] \in Worlds
<1>1. \A x, y \in Int : [w EXCEPT !.tokens = x, !.position = y] \in Worlds
  <2> TAKE x, y \in Int
  <2>1. [[w EXCEPT !.tokens = x] EXCEPT !.position = y] \in Worlds
    BY WorldsWith
  <2> QED BY <2>1
<1>2. \A x, y, z \in Int : [w EXCEPT !.tokens = x, !.position = y, !.cash = z] \in Worlds
  <2> TAKE x, y, z \in Int
  <2>1. [[w EXCEPT !.tokens = x, !.position = y] EXCEPT !.cash = z] \in Worlds
    BY <1>1, WorldsWith
  <2> QED BY <2>1
<1>3. \A x \in BOOLEAN, y \in Int : [w EXCEPT !.credit = x, !.cash = y] \in Worlds
  <2> TAKE x \in BOOLEAN, y \in Int
  <2>1. [[w EXCEPT !.credit = x] EXCEPT !.cash = y] \in Worlds
    BY WorldsWith
  <2> QED BY <2>1
<1>4. \A x \in Int, y \in Nat : [w EXCEPT !.position = x, !.othersShort = y] \in Worlds
  <2> TAKE x \in Int, y \in Nat
  <2>1. [[w EXCEPT !.position = x] EXCEPT !.othersShort = y] \in Worlds
    BY WorldsWith
  <2> QED BY <2>1
<1>5. \A x \in BOOLEAN : [w EXCEPT !.credit = x, !.position = 0, !.sibling = 0, !.othersShort = 0] \in Worlds
  <2> TAKE x \in BOOLEAN
  <2>0. 0 \in Int /\ 0 \in Nat
    OBVIOUS
  <2>1. [[w EXCEPT !.credit = x] EXCEPT !.position = 0] \in Worlds
    BY <2>0, WorldsWith
  <2>2. [[[w EXCEPT !.credit = x] EXCEPT !.position = 0] EXCEPT !.sibling = 0] \in Worlds
    BY <2>0, <2>1, WorldsWith
  <2>3. [[[[w EXCEPT !.credit = x] EXCEPT !.position = 0] EXCEPT !.sibling = 0] EXCEPT !.othersShort = 0] \in Worlds
    BY <2>0, <2>2, WorldsWith
  <2> QED BY <2>3
<1>6. \A x, y, z \in Nat : [w EXCEPT !.elsewhere = x, !.sibling = y, !.position = z] \in Worlds
  <2> TAKE x, y, z \in Nat
  <2>1. [[w EXCEPT !.elsewhere = x] EXCEPT !.sibling = y] \in Worlds
    BY WorldsWith
  <2>3. z \in Int
    OBVIOUS
  <2>2. [[[w EXCEPT !.elsewhere = x] EXCEPT !.sibling = y] EXCEPT !.position = z] \in Worlds
    BY <2>1, <2>3, WorldsWith
  <2> QED BY <2>2
<1>7. \A x, y \in Int : [w EXCEPT !.stage = "EXPIRED", !.position = x, !.tokens = y] \in Worlds
  <2> TAKE x, y \in Int
  <2>1. [[w EXCEPT !.stage = "EXPIRED"] EXCEPT !.position = x] \in Worlds
    BY WorldsWith
  <2>2. [[[w EXCEPT !.stage = "EXPIRED"] EXCEPT !.position = x] EXCEPT !.tokens = y] \in Worlds
    BY <2>1, WorldsWith
  <2> QED BY <2>2
<1> QED BY <1>1, <1>2, <1>3, <1>4, <1>5, <1>6, <1>7

PageInv == world \in Worlds /\ OfferedIsAccepted

LEMMA PageStarts == PageInit => PageInv
<1> SUFFICES ASSUME PageInit PROVE PageInv
  OBVIOUS
<1>1. StartWorld \in Worlds
  BY DEF StartWorld, Worlds
<1>2. world \in Starts
  BY DEF PageInit
<1>3. \A e \in {0, 1}, t \in {0, 1} : [StartWorld EXCEPT !.elsewhere = e, !.sibling = t, !.position = t] \in Worlds
  <2>1. \A e \in {0, 1} : e \in Nat
    OBVIOUS
  <2> QED BY <1>1, <2>1, WorldsWithMore
<1>4. \A p \in {-1, 1} : [StartWorld EXCEPT !.stage = "EXPIRED", !.position = p, !.tokens = 1] \in Worlds
  <2>1. 1 \in Int /\ \A p \in {-1, 1} : p \in Int
    OBVIOUS
  <2> QED BY <1>1, <2>1, WorldsWithMore
<1>5. world \in Worlds
  BY <1>2, <1>3, <1>4 DEF Starts
<1>6. OfferedIsAccepted
  BY DEF PageInit, OfferedIsAccepted
<1> QED BY <1>5, <1>6 DEF PageInv

LEMMA PressKeepsPage ==
  ASSUME PageInv, NEW action \in Actions, NEW q \in Amounts, PressAction(action, q)
  PROVE  PageInv'
<1> DEFINE why == Refusals(action, q)
<1>1. Offered(action, q) /\ world' = (IF why = {} THEN Effect(action, q) ELSE world)
  BY DEF PressAction
<1>2. pressed' = [action |-> action, q |-> q, refused |-> why, current |-> Current]
  BY DEF PressAction
<1>3. Current => why \subseteq Unforeseen(action)
  BY <1>1, OffersAccepted DEF PageInv
<1>4. OfferedIsAccepted'
  BY <1>2, <1>3 DEF OfferedIsAccepted, Unforeseen
<1>5. Effect(action, q) \in Worlds
  <2>0. world \in Worlds /\ q \in Int /\ world.tokens \in Int /\ world.position \in Int /\ world.cash \in Int
    BY DEF PageInv, Worlds, Amounts
  <2>1. /\ world \in Worlds /\ world.tokens + q \in Int /\ world.tokens - q \in Int
        /\ world.position + q \in Int /\ world.position - q \in Int
        /\ world.cash - q \in Int /\ world.cash + 1 \in Int
    BY <2>0
  <2>6. CASE action = "buy"
    <3>1. Effect(action, q) = [world EXCEPT !.tokens = world.tokens + q]
      BY <2>6 DEF Effect
    <3> QED BY <2>1, <3>1, WorldsWith
  <2>7. CASE action \in {"sell", "redeem"}
    <3>1. Effect(action, q) = [world EXCEPT !.tokens = world.tokens - q]
      BY <2>7 DEF Effect
    <3> QED BY <2>1, <3>1, WorldsWith
  <2>8. CASE action = "write"
    <3>1. Effect(action, q) = [world EXCEPT !.tokens = world.tokens + q, !.position = world.position - q, !.cash = world.cash - q]
      BY <2>8 DEF Effect, FeeFor
    <3>2. [world EXCEPT !.tokens = world.tokens + q, !.position = world.position - q, !.cash = world.cash - q] \in Worlds
      BY <2>1, WorldsWithMore
    <3> QED BY <3>1, <3>2
  <2>9. CASE action = "wrap"
    <3>1. Effect(action, q) = [world EXCEPT !.tokens = world.tokens + q, !.position = world.position - q]
      BY <2>9 DEF Effect
    <3>2. [world EXCEPT !.tokens = world.tokens + q, !.position = world.position - q] \in Worlds
      BY <2>1, WorldsWithMore
    <3> QED BY <3>1, <3>2
  <2>10. CASE action \in {"unwrap", "close"}
    <3>1. Effect(action, q) = [world EXCEPT !.tokens = world.tokens - q, !.position = world.position + q]
      BY <2>10 DEF Effect
    <3>2. [world EXCEPT !.tokens = world.tokens - q, !.position = world.position + q] \in Worlds
      BY <2>1, WorldsWithMore
    <3> QED BY <3>1, <3>2
  <2>11. CASE action = "claim"
    <3>1. Effect(action, q) = [world EXCEPT !.credit = FALSE, !.cash = world.cash + 1]
      BY <2>11 DEF Effect
    <3> QED BY <2>1, <3>1, WorldsWithMore
  <2> QED BY <2>6, <2>7, <2>8, <2>9, <2>10, <2>11 DEF Actions
<1> QED BY <1>1, <1>4, <1>5 DEF PageInv

\* What happens beside the page.
LEMMA BecomesKeepsPage ==
  ASSUME NEW w \in Worlds, Becomes(w)
  PROVE  PageInv'
BY DEF Becomes, PageInv, OfferedIsAccepted

LEMMA PageStep ==
  ASSUME PageInv, [PageNext]_pageVars
  PROVE  PageInv'
<1>1. world \in Worlds
  BY DEF PageInv
<1>2. ASSUME NEW part \in Parts, Refresh(part) PROVE PageInv'
  BY <1>2 DEF Refresh, PageInv, OfferedIsAccepted
<1>3. ASSUME NEW action \in Actions, NEW q \in Amounts, PressAction(action, q) PROVE PageInv'
  BY <1>3, PressKeepsPage
<1>4. ASSUME NEW f \in {"closeOnly", "prices", "paused", "seeded", "tradable"}, Toggle(f) PROVE PageInv'
  <2>1. /\ [world EXCEPT !["closeOnly"] = ~world["closeOnly"]] \in Worlds
        /\ [world EXCEPT !["prices"] = ~world["prices"]] \in Worlds
        /\ [world EXCEPT !["paused"] = ~world["paused"]] \in Worlds
    BY <1>1 DEF Worlds
  <2>2. /\ [world EXCEPT !["seeded"] = ~world["seeded"]] \in Worlds
        /\ [world EXCEPT !["tradable"] = ~world["tradable"]] \in Worlds
    BY <1>1 DEF Worlds
  <2>3. [world EXCEPT ![f] = ~world[f]] \in Worlds
    BY <2>1, <2>2
  <2> QED BY <1>4, <2>3, BecomesKeepsPage DEF Toggle
<1>5. CASE MarketMoves
  <2>1. [world EXCEPT !.stress = 5 - world.stress] \in Worlds
    BY <1>1 DEF Worlds
  <2> QED BY <1>5, <2>1, BecomesKeepsPage DEF MarketMoves
<1>6. CASE OthersWrite \/ OthersClose
  <2>1. [world EXCEPT !.othersShort = world.othersShort + 1] \in Worlds
    BY <1>1 DEF Worlds
  <2>2. world.othersShort > 0 => [world EXCEPT !.othersShort = world.othersShort - 1] \in Worlds
    BY <1>1 DEF Worlds
  <2> QED BY <1>6, <2>1, <2>2, BecomesKeepsPage DEF OthersWrite, OthersClose
<1>7. CASE OwnLiquidated
  <2>0. world.position \in Int /\ world.othersShort \in Nat
    BY <1>1 DEF Worlds
  <2>1. world.position + 1 \in Int /\ world.othersShort + 1 \in Nat
    BY <2>0
  <2>2. [world EXCEPT !.position = world.position + 1, !.othersShort = world.othersShort + 1] \in Worlds
    BY <1>1, <2>1, WorldsWithMore
  <2> QED BY <1>7, <2>2, BecomesKeepsPage DEF OwnLiquidated
<1>8. CASE GroupExpires \/ OracleStall \/ FinalizePrice \/ OpenPayouts
  <2>1. \A stage \in {"EXPIRED", "ORACLE_STALLED", "FINALIZED", "REDEEMABLE"} : [world EXCEPT !.stage = stage] \in Worlds
    BY <1>1, WorldsWith
  <2> QED BY <1>8, <2>1, BecomesKeepsPage DEF GroupExpires, OracleStall, FinalizePrice, OpenPayouts
<1>9. CASE SettleEveryone
  <2>0. (world.position > 0) \in BOOLEAN
    BY <1>1 DEF Worlds
  <2>1. [world EXCEPT !.credit = world.position > 0, !.position = 0, !.sibling = 0, !.othersShort = 0] \in Worlds
    BY <1>1, <2>0, WorldsWithMore
  <2> QED BY <1>9, <2>1, BecomesKeepsPage DEF SettleEveryone
<1>10. CASE UNCHANGED pageVars
  BY <1>10 DEF pageVars, PageInv, OfferedIsAccepted
<1> QED BY <1>2, <1>3, <1>4, <1>5, <1>6, <1>7, <1>8, <1>9, <1>10 DEF PageNext

-----------------------------------------------------------------------------
(* The card of a group that has ended                                      *)

CardInv ==
  /\ DOMAIN group = {"stage", "open"} /\ group.open \subseteq Participants
  /\ group.stage \in {"EXPIRED", "ORACLE_STALLED", "FINALIZED", "REDEEMABLE"}

LEMMA CardStarts == CardInit => CardInv
BY DEF CardInit, CardInv

LEMMA CardStep ==
  ASSUME CardInv, [CardNext]_cardVars
  PROVE  CardInv'
<1> USE DEF CardInv
<1>1. CASE UNCHANGED group
  BY <1>1
<1>2. CASE PressFinalize \/ PressSettle \/ PressRatio
  BY <1>2 DEF PressFinalize, PressSettle, PressRatio
<1>3. CASE Late \/ Keeper
  BY <1>3 DEF Late, Keeper
<1>4. CASE ReadStage \/ ReadLeft \/ ReadProof \/ ReadHolders \/ Wait \/ FeedBreaks \/ FeedRecovers \/ IndexerFollows
  BY <1>4, <1>1 DEF ReadStage, ReadLeft, ReadProof, ReadHolders, Wait, FeedBreaks, FeedRecovers, IndexerFollows
<1>5. CASE UNCHANGED cardVars
  BY <1>5, <1>1 DEF cardVars
<1> QED BY <1>2, <1>3, <1>4, <1>5 DEF CardNext

LEMMA StepIsShown ==
  ASSUME CardInv
  PROVE  NextStepShown
<1> SUFFICES ASSUME CardCurrent
             PROVE  StepOffered = CASE group.stage \in {"EXPIRED", "ORACLE_STALLED"} -> IF waited /\ provable THEN "finalize" ELSE "none"
                                    [] StageNow = "FINALIZED" -> "settle"
                                    [] StageNow = "ALL_SETTLED" -> "ratio"
                                    [] OTHER -> "none"
  BY DEF NextStepShown
<1>1. card.stage = StageNow /\ card.left = Cardinality(group.open)
  BY DEF CardCurrent
<1>2. CASE group.stage \in {"EXPIRED", "ORACLE_STALLED"}
  <2>1. card.stage = group.stage /\ StageNow = group.stage
    BY <1>1, <1>2 DEF StageNow
  <2>2. CanFinalize <=> waited /\ provable
    BY <1>2, <2>1 DEF CanFinalize, NeedsPrice, CardCurrent
  <2>3. StepOffered = IF CanFinalize THEN "finalize" ELSE "none"
    BY <1>2, <2>1 DEF StepOffered
  <2>4. StageNow \notin {"FINALIZED", "ALL_SETTLED"}
    BY <1>2, <2>1
  <2> QED BY <1>2, <2>2, <2>3, <2>4
<1>3. CASE group.stage = "FINALIZED" /\ group.open # {}
  <2>1. StageNow = "FINALIZED"
    BY <1>3 DEF StageNow
  <2>2. holders[card.left] = group.open
    BY <1>1, <2>1 DEF CardCurrent
  <2>3. group.open # NotListed
    BY CardAssumption DEF CardInv, NotListed
  <2>4. Listed # {}
    BY <1>3, <2>2, <2>3 DEF Listed
  <2> QED BY <1>1, <1>3, <2>1, <2>4 DEF StepOffered
<1>4. CASE group.stage = "FINALIZED" /\ group.open = {}
  BY <1>1, <1>4 DEF StepOffered, StageNow
<1>5. CASE group.stage = "REDEEMABLE"
  BY <1>1, <1>5 DEF StepOffered, StageNow
<1> QED BY <1>2, <1>3, <1>4, <1>5 DEF CardInv

-----------------------------------------------------------------------------
(* Auctions                                                                *)

Debtors ==
  [cash : Int, short : [Underlyings -> Int], expired : [Underlyings -> BOOLEAN],
   auction : [Underlyings -> {"none", "young", "old"}], stress : {1, 2}]

AuctionInv == debtor \in Debtors /\ slider \in {MinSlice, MaxSlice, Whole} /\ OffersAreTaken

\* The target is no less than the margin it is a part more of.
LEMMA TargetCovers ==
  ASSUME NEW need \in Nat
  PROVE  (2 * need * (10 + BufferTenths) + 9) \div 10 \in Int /\ (2 * need * (10 + BufferTenths) + 9) \div 10 >= need
<1> DEFINE n == 2 * need * (10 + BufferTenths)
<1>1. n \in Nat /\ n >= 20 * need
  <2>1. BufferTenths \in Nat /\ need * BufferTenths \in Nat
    BY AuctionAssumption
  <2>2. n = 20 * need + 2 * (need * BufferTenths)
    BY <2>1
  <2> QED BY <2>1, <2>2
<1> HIDE DEF n
<1>2. (n + 9) \div 10 \in Int /\ (n + 9) \div 10 >= need
  BY <1>1
<1> QED BY <1>2 DEF n

LEMMA UnderwaterIsOffTarget ==
  ASSUME debtor \in Debtors
  PROVE  BelowLine(debtor) => ~AtTarget(debtor)
<1>1. Sold(debtor) \in Nat
  <2>1. IsFiniteSet(Underlyings \X (1..MaxQty))
    <3>1. IsFiniteSet(1..MaxQty)
      BY AuctionAssumption, FS_Interval
    <3> QED BY <3>1, AuctionAssumption, FS_Product
  <2>2. IsFiniteSet({p \in Underlyings \X (1..MaxQty) : p[2] <= debtor.short[p[1]]})
    BY <2>1, FS_Subset
  <2> QED BY <2>2, FS_CardinalityType DEF Sold
<1>2. debtor.cash \in Int /\ (debtor.stress = 1 \/ debtor.stress = 2)
  BY DEF Debtors
<1> DEFINE need == Maintenance(debtor)
<1>3. need \in Nat /\ EquityOf(debtor) \in Int
  BY <1>1, <1>2 DEF Maintenance, EquityOf
<1>4. Target(debtor) \in Int /\ Target(debtor) >= need
  BY <1>3, TargetCovers DEF Target, Initial
<1> QED BY <1>3, <1>4 DEF BelowLine, AtTarget, Covers

\* What pages that are up to date offer is refused for what they cannot tell only.
LEMMA TriesAccepted ==
  ASSUME AuctionInv, UpToDate, NEW u \in Underlyings, NEW action, NEW share,
         \/ action = "start" /\ OffersStart(u)
         \/ action = "slice" /\ OffersSlice(u) /\ share = SliceShown(u)
         \/ action = "end" /\ OffersEnd(u)
  PROVE  WhyNot(action, u, share) \subseteq {"EmptyBucket", "HealthNotImproved"}
<1>1. /\ view.below = BelowLine(debtor) /\ view.listed = Open(debtor) /\ view.auction = debtor.auction
      /\ view.equity = EquityOf(debtor) /\ view.target = Target(debtor)
  BY DEF UpToDate, TargetShown
<1>2. debtor \in Debtors /\ slider \in {1, 2, 4}
  BY DEF AuctionInv, MinSlice, MaxSlice, Whole
<1>3. Card # {} => BelowLine(debtor)
  BY <1>1 DEF Card
<1>4. CASE action = "start" /\ OffersStart(u)
  <2>1. BelowLine(debtor) /\ debtor.auction[u] = "none"
    BY <1>1, <1>3, <1>4 DEF OffersStart
  <2> QED BY <1>4, <2>1 DEF WhyNot, If
<1>5. CASE action = "slice" /\ OffersSlice(u) /\ share = SliceShown(u)
  <2>1. ~AtTarget(debtor) /\ debtor.auction[u] # "none"
    BY <1>1, <1>2, <1>3, <1>5, UnderwaterIsOffTarget DEF OffersSlice
  <2>2. share \in MinSlice..(IF debtor.auction[u] = "old" THEN Whole ELSE MaxSlice)
    BY <1>1, <1>2, <1>5 DEF SliceShown, MinSlice, MaxSlice, Whole
  <2> QED BY <1>5, <2>1, <2>2 DEF WhyNot, If
<1>6. CASE action = "end" /\ OffersEnd(u)
  <2>1. AtTarget(debtor) /\ debtor.auction[u] # "none"
    BY <1>1, <1>6 DEF OffersEnd, CanEnd, Notices, AtTarget, Covers
  <2> QED BY <1>6, <2>1 DEF WhyNot, If
<1> QED BY <1>4, <1>5, <1>6

LEMMA RunningShown ==
  ASSUME AuctionInv
  PROVE  RunningIsShown
<1> SUFFICES ASSUME UpToDate, NEW u \in Auctioned(debtor), u \in Open(debtor) \/ ~BelowLine(debtor)
             PROVE  (u \in Card /\ OffersSlice(u)) # (u \in Notices("auctions"))
  BY DEF RunningIsShown
<1>1. /\ view.below = BelowLine(debtor) /\ view.listed = Open(debtor) /\ view.auction = debtor.auction
      /\ view.running = Auctioned(debtor)
  BY DEF UpToDate
<1>2. view.auction[u] # "none"
  BY <1>1 DEF Auctioned
<1>3. CASE BelowLine(debtor)
  <2>1. u \in Card /\ OffersSlice(u)
    BY <1>1, <1>2, <1>3 DEF Card, OffersSlice
  <2>2. u \notin Notices("auctions")
    BY <1>1, <1>3 DEF Notices, Recovered
  <2> QED BY <2>1, <2>2
<1>4. CASE ~BelowLine(debtor)
  <2>1. u \notin Card
    BY <1>1, <1>4 DEF Card
  <2>2. u \in Notices("auctions")
    BY <1>1, <1>2, <1>4 DEF Notices, Recovered
  <2> QED BY <2>1, <2>2
<1> QED BY <1>3, <1>4

LEMMA AuctionStarts == AuctionInit => AuctionInv
<1> SUFFICES ASSUME AuctionInit PROVE AuctionInv
  OBVIOUS
<1>1. debtor \in Debtors
  BY AuctionAssumption DEF AuctionInit, Debtors
<1>2. slider = MaxSlice /\ answer = NoAnswer
  BY DEF AuctionInit
<1> QED BY <1>1, <1>2 DEF AuctionInv, OffersAreTaken

\* A button, accepted or refused.
LEMMA TriesKeep ==
  ASSUME AuctionInv, NEW action \in {"start", "slice", "end"}, NEW u \in Underlyings, NEW share \in Int,
         Tries(action, u, share),
         UpToDate => WhyNot(action, u, share) \subseteq {"EmptyBucket", "HealthNotImproved"}
  PROVE  AuctionInv'
<1> DEFINE why == WhyNot(action, u, share)
<1>1. /\ debtor' = (IF why = {} THEN Effects(action, u, share) ELSE debtor)
      /\ answer' = [action |-> action, refused |-> why, current |-> UpToDate] /\ UNCHANGED slider
  BY DEF Tries
<1>2. OffersAreTaken'
  BY <1>1 DEF OffersAreTaken
<1>3. debtor \in Debtors /\ debtor.cash \in Int /\ debtor.short[u] \in Int /\ (debtor.stress = 1 \/ debtor.stress = 2)
  BY DEF AuctionInv, Debtors
<1>4. \A d \in Debtors, a \in {"none", "young", "old"} : [d EXCEPT !.auction[u] = a] \in Debtors
  BY DEF Debtors
<1>5. Effects(action, u, share) \in Debtors
  <2>1. CASE action = "start"
    BY <1>3, <1>4, <2>1 DEF Effects
  <2>2. CASE action = "end"
    BY <1>3, <1>4, <2>2 DEF Effects
  <2>3. CASE action = "slice"
    <3> DEFINE moved == Moved(u, share)
               c == IF debtor.cash > moved * debtor.stress THEN debtor.cash - moved * debtor.stress ELSE 0
               after == [debtor EXCEPT !.short[u] = debtor.short[u] - moved, !.cash = c]
    <3>1. moved \in Int
      <4>1. debtor.short[u] * share \in Int
        BY <1>3
      <4> QED BY <4>1 DEF Moved, Whole
    <3>2. c \in Int
      BY <1>3, <3>1
    <3> HIDE DEF moved, c
    <3>3. \A x, y \in Int : [debtor EXCEPT !.short[u] = x, !.cash = y] \in Debtors
      BY <1>3 DEF Debtors
    <3>4. debtor.short[u] - moved \in Int
      BY <1>3, <3>1
    <3>5. after \in Debtors
      BY <3>2, <3>3, <3>4
    <3>6. Effects(action, u, share) = after \/ Effects(action, u, share) = [after EXCEPT !.auction[u] = "none"]
      BY <2>3 DEF Effects, Sliced, moved, c
    <3> HIDE DEF after
    <3> QED BY <1>4, <3>5, <3>6
  <2> QED BY <2>1, <2>2, <2>3
<1> QED BY <1>1, <1>2, <1>3, <1>5 DEF AuctionInv

\* What happens to the account beside the pages.
LEMMA TurnKeeps ==
  ASSUME AuctionInv, NEW d \in Debtors, Turn(d)
  PROVE  AuctionInv'
BY DEF Turn, AuctionInv, OffersAreTaken

LEMMA AuctionStep ==
  ASSUME AuctionInv, [AuctionNext]_auctionVars
  PROVE  AuctionInv'
<1>1. debtor \in Debtors /\ slider \in {1, 2, 4}
  BY DEF AuctionInv, MinSlice, MaxSlice, Whole
<1>2. CASE ReadList \/ ReadBuckets \/ ReadTarget \/ ReadRunning \/ \E u \in Underlyings : ReadAuction(u)
  <2>1. UNCHANGED <<debtor, slider>> /\ answer' = NoAnswer
    BY <1>2 DEF ReadList, ReadBuckets, ReadTarget, ReadRunning, ReadAuction, Reads
  <2> QED BY <2>1 DEF AuctionInv, OffersAreTaken
<1>3. CASE Slide
  <2>1. UNCHANGED debtor /\ answer' = NoAnswer /\ slider' \in {MinSlice, MaxSlice, Whole}
    BY <1>3 DEF Slide
  <2> QED BY <2>1 DEF AuctionInv, OffersAreTaken
<1>4. CASE Shock \/ PaysIn
  <2>1. [debtor EXCEPT !.stress = 3 - debtor.stress] \in Debtors
    BY <1>1 DEF Debtors
  <2>2. [debtor EXCEPT !.cash = MaxDebtCash] \in Debtors
    BY <1>1, AuctionAssumption DEF Debtors
  <2> QED BY <1>4, <2>1, <2>2, TurnKeeps DEF Shock, PaysIn
<1>5. ASSUME NEW u \in Underlyings, PressStart(u) PROVE AuctionInv'
  BY <1>5, TriesAccepted, TriesKeep DEF PressStart
<1>6. ASSUME NEW u \in Underlyings, PressSlice(u) PROVE AuctionInv'
  <2>1. SliceShown(u) \in Int
    BY <1>1 DEF SliceShown, MinSlice, MaxSlice, Whole
  <2> QED BY <1>6, <2>1, TriesAccepted, TriesKeep DEF PressSlice
<1>7. ASSUME NEW u \in Underlyings, PressEnd(u) PROVE AuctionInv'
  BY <1>7, TriesAccepted, TriesKeep DEF PressEnd
<1>8. ASSUME NEW u \in Underlyings, Grows(u) \/ ClosesShort(u) \/ Expires(u) \/ Settled(u) PROVE AuctionInv'
  <2>1. [debtor EXCEPT !.auction[u] = "old"] \in Debtors
    BY <1>1 DEF Debtors
  <2>2. [debtor EXCEPT !.short[u] = debtor.short[u] - 1] \in Debtors
    BY <1>1 DEF Debtors
  <2>3. [debtor EXCEPT !.short[u] = 0, !.expired[u] = TRUE] \in Debtors
    <3>1. [debtor EXCEPT !.short[u] = 0] \in Debtors
      BY <1>1 DEF Debtors
    <3>2. \A d \in Debtors : [d EXCEPT !.expired[u] = TRUE] \in Debtors
      BY DEF Debtors
    <3>3. [[debtor EXCEPT !.short[u] = 0] EXCEPT !.expired[u] = TRUE] \in Debtors
      BY <3>1, <3>2
    <3> QED BY <3>3
  <2>4. [debtor EXCEPT !.expired[u] = FALSE] \in Debtors
    BY <1>1 DEF Debtors
  <2> QED BY <1>8, <2>1, <2>2, <2>3, <2>4, TurnKeeps DEF Grows, ClosesShort, Expires, Settled
<1>9. CASE UNCHANGED auctionVars
  BY <1>9 DEF auctionVars, AuctionInv, OffersAreTaken
<1> QED BY <1>2, <1>3, <1>4, <1>5, <1>6, <1>7, <1>8, <1>9 DEF AuctionNext

PagesSpec ==
  /\ PageInit /\ CardInit /\ AuctionInit
  /\ [][PageNext]_pageVars /\ [][CardNext]_cardVars /\ [][AuctionNext]_auctionVars

\* THEOREM.  Whatever is read when, and whoever acts beside the visitors: pages of
\* series, settlement and auctions that are up to date offer what the contracts
\* accept, to the last option that any caps leave, and withhold nothing else.
THEOREM PagesAreTrue == PagesSpec => []PagesTrue
<1>1. PageInv /\ CardInv /\ AuctionInv => PagesTrue
  BY NothingWithheld, StepIsShown, RunningShown DEF PagesTrue, PageInv, AuctionInv
<1>2. PageInit /\ [][PageNext]_pageVars => []PageInv
  BY PageStarts, PageStep, PTL
<1>3. CardInit /\ [][CardNext]_cardVars => []CardInv
  BY CardStarts, CardStep, PTL
<1>4. AuctionInit /\ [][AuctionNext]_auctionVars => []AuctionInv
  BY AuctionStarts, AuctionStep, PTL
<1> QED BY <1>1, <1>2, <1>3, <1>4, PTL DEF PagesSpec

-----------------------------------------------------------------------------
(* Folds: what a fold over a sequence does, position by position           *)

LEMMA LeastCount ==
  ASSUME NEW S \in SUBSET Nat, S # {}
  PROVE  \E m \in S : \A q \in S : m <= q
<1>1. PICK m \in S : \A q \in S : ~(<<q, m>> \in OpToRel(<, Nat))
  BY NatLessThanWellFounded, WFMin
<1>2. OpToRel(<, Nat) = {ss \in Nat \X Nat : ss[1] < ss[2]}
  BY DEF OpToRel
<1>3. \A x, y \in Nat : x < y => <<x, y>> \in OpToRel(<, Nat)
  BY <1>2
<1>4. \A q \in S : ~(q < m)
  BY <1>1, <1>3
<1> QED
  BY <1>4

\* The largest of a set of numbers, in a set that ends with one.
LEMMA LargestIs ==
  ASSUME NEW m \in Nat, NEW s \in SUBSET (1..m), m \in s
  PROVE  Max(s) = m
<1>1. \A y \in s : y \in Nat /\ m >= y
  OBVIOUS
<1>2. \A x \in s : (\A y \in s : x >= y) => x = m
  BY <1>1
<1> QED
  BY <1>1, <1>2 DEF Max

LEMMA MaxIn ==
  ASSUME NEW n \in Nat, NEW s \in SUBSET (1..n), s # {}
  PROVE  Max(s) \in s
<1> DEFINE T == {m \in Nat : \A x \in s : x <= m}
<1>1. n \in T /\ T \in SUBSET Nat
  OBVIOUS
<1>2. PICK m \in T : \A q \in T : m <= q
  BY <1>1, LeastCount
<1>3. m \in s
  <2> SUFFICES ASSUME m \notin s PROVE FALSE
    OBVIOUS
  <2>1. \A x \in s : x <= m - 1 /\ x >= 1
    BY <1>2
  <2>2. PICK x \in s : TRUE
    OBVIOUS
  <2>3. m - 1 \in Nat
    BY <2>1, <2>2
  <2>4. m - 1 \in T /\ m - 1 < m
    BY <2>1, <2>3
  <2> QED
    BY <1>2, <2>4
<1>4. \A y \in s : m >= y
  BY <1>2
<1> HIDE DEF T
<1> QED
  BY <1>3, <1>4 DEF Max

IsRun(h, F, base, m) ==
  \A s \in SUBSET (1..m) : h[s] = IF s = {} THEN base ELSE F[<<h[s \ {Max(s)}], Max(s)>>]

\* The iterations of a fold exist, whatever the step does.
LEMMA RunExists ==
  ASSUME NEW A, NEW base \in A, NEW n \in Nat, NEW F \in [A \X (1..n) -> A]
  PROVE  \E h \in [SUBSET (1..n) -> A] : IsRun(h, F, base, n)
<1> DEFINE Runs(m) == \E h \in [SUBSET (1..m) -> A] : IsRun(h, F, base, m)
           Wrong == {m \in Nat : m <= n /\ ~Runs(m)}
<1>0. \A m \in Nat : m <= n => (m \in Wrong <=> ~Runs(m))
  OBVIOUS
<1>00. Wrong \in SUBSET Nat /\ \A m \in Wrong : m <= n
  OBVIOUS
<1> HIDE DEF Wrong, Runs
<1>1. ASSUME NEW m \in Wrong, \A q \in Wrong : m <= q PROVE FALSE
  <2>1. CASE m = 0
    <3> DEFINE h == [s \in SUBSET (1..0) |-> base]
    <3>1. h \in [SUBSET (1..0) -> A]
      OBVIOUS
    <3>2. \A s \in SUBSET (1..0) : s = {} /\ h[s] = base
      OBVIOUS
    <3>3. Runs(0)
      BY <3>1, <3>2 DEF IsRun, Runs
    <3> QED
      BY <1>0, <1>00, <1>1, <2>1, <3>3
  <2>2. CASE m # 0
    <3> DEFINE k == m - 1
    <3>1. k \in Nat /\ k < m /\ m = k + 1 /\ m \in 1..n /\ m \in Nat
      BY <1>00, <2>2
    <3>2. k \notin Wrong
      BY <1>00, <1>1, <3>1
    <3> HIDE DEF k
    <3>21. Runs(k)
      BY <1>0, <1>00, <3>1, <3>2
    <3>3. PICK g \in [SUBSET (1..k) -> A] : IsRun(g, F, base, k)
      BY <3>21 DEF Runs
    <3> DEFINE h == [s \in SUBSET (1..m) |-> IF m \in s THEN F[<<g[s \ {m}], m>>] ELSE g[s]]
    <3>4. \A s \in SUBSET (1..m) : s \ {m} \in SUBSET (1..k) /\ (m \notin s => s \in SUBSET (1..k))
      BY <3>1
    <3>5. \A s \in SUBSET (1..m) : g[s \ {m}] \in A /\ (m \notin s => g[s] \in A)
      BY <3>4
    <3>6. h \in [SUBSET (1..m) -> A]
      <4>1. \A a \in A : F[<<a, m>>] \in A
        BY <3>1
      <4> QED
        BY <3>5, <4>1
    <3>7. ASSUME NEW s \in SUBSET (1..m)
          PROVE  h[s] = IF s = {} THEN base ELSE F[<<h[s \ {Max(s)}], Max(s)>>]
      <4>1. CASE m \in s
        <5>1. Max(s) = m /\ s # {}
          BY <4>1, LargestIs
        <5>2. s \ {m} \in SUBSET (1..m) /\ m \notin s \ {m}
          OBVIOUS
        <5>3. h[s \ {m}] = g[s \ {m}]
          BY <5>2
        <5>4. h[s] = F[<<g[s \ {m}], m>>]
          BY <4>1
        <5> QED
          BY <5>1, <5>3, <5>4
      <4>2. CASE m \notin s
        <5>1. s \in SUBSET (1..k)
          BY <3>4, <4>2
        <5>2. h[s] = g[s]
          BY <4>2
        <5>3. g[s] = IF s = {} THEN base ELSE F[<<g[s \ {Max(s)}], Max(s)>>]
          BY <3>3, <5>1 DEF IsRun
        <5>4. s \ {Max(s)} \in SUBSET (1..m) /\ m \notin s \ {Max(s)}
          BY <4>2
        <5>5. h[s \ {Max(s)}] = g[s \ {Max(s)}]
          BY <5>4
        <5> HIDE DEF h
        <5> QED
          BY <5>2, <5>3, <5>5
      <4> QED
        BY <4>1, <4>2
    <3>8. IsRun(h, F, base, m)
      BY <3>7 DEF IsRun
    <3>9. Runs(m)
      BY <3>6, <3>8 DEF Runs
    <3> QED
      BY <1>0, <1>00, <3>9
  <2> QED
    BY <2>1, <2>2
<1>2. Wrong = {}
  BY <1>00, <1>1, LeastCount
<1>3. Runs(n)
  BY <1>0, <1>2
<1> QED
  BY <1>3 DEF Runs

\* What a fold over n elements passes through.
Passes(v, F, base, n) == v[0] = base /\ \A k \in 1..n : v[k] = F[<<v[k - 1], k>>]

\* The prefixes of a run, as long as they stay within A.
Follows(H, A, F, base, n) ==
  H[{}] = base /\ \A k \in 1..n : H[1..(k - 1)] \in A => H[1..k] = F[<<H[1..(k - 1)], k>>]

Reaches(x, A, F, base, n) == \E v \in [0..n -> A] : Passes(v, F, base, n) /\ v[n] = x

\* A run that takes its step within A passes through A.
LEMMA RunPasses ==
  ASSUME NEW A, NEW base \in A, NEW n \in Nat, NEW F \in [A \X (1..n) -> A], NEW H,
         Follows(H, A, F, base, n)
  PROVE  Reaches(H[1..n], A, F, base, n)
<1> DEFINE v == [k \in 0..n |-> H[1..k]]
           Wrong == {k \in 0..n : v[k] \notin A}
<1>0. 1..0 = {}
  OBVIOUS
<1>1. v[0] = base
  BY <1>0 DEF Follows
<1>2. \A k \in 1..n : k - 1 \in 0..n /\ k \in 0..n /\ v[k] = H[1..k] /\ v[k - 1] = H[1..(k - 1)]
  OBVIOUS
<1> HIDE DEF v
<1>3. ASSUME NEW m \in Wrong, \A q \in Wrong : m <= q PROVE FALSE
  <2>1. m \in 1..n /\ v[m] \notin A
    BY <1>1
  <2>2. v[m - 1] \in A
    BY <1>2, <1>3, <2>1
  <2>3. v[m] = F[<<v[m - 1], m>>] /\ <<v[m - 1], m>> \in A \X (1..n)
    BY <1>2, <2>1, <2>2 DEF Follows
  <2> QED
    BY <2>1, <2>3
<1>4. \A k \in 0..n : v[k] \in A
  <2>1. Wrong \in SUBSET Nat
    OBVIOUS
  <2>2. Wrong = {}
    <3> HIDE DEF Wrong
    <3> QED BY <1>3, <2>1, LeastCount
  <2> QED BY <2>2
<1>5. v \in [0..n -> A]
  BY <1>4 DEF v
<1>6. Passes(v, F, base, n)
  BY <1>1, <1>2, <1>4 DEF Passes, Follows
<1>7. v[n] = H[1..n]
  BY DEF v
<1> QED
  BY <1>5, <1>6, <1>7 DEF Reaches

\* The run of a prefix adds the last number of it.
LEMMA PrefixRun ==
  ASSUME NEW n \in Nat, NEW k \in 1..n
  PROVE  /\ 1..k \in SUBSET (1..n) /\ 1..k # {} /\ Max(1..k) = k
         /\ (1..k) \ {k} = 1..(k - 1)
<1>1. k \in Nat /\ k \in 1..k /\ 1..k \in SUBSET (1..k)
  OBVIOUS
<1>2. Max(1..k) = k
  BY <1>1, LargestIs
<1> QED
  BY <1>2

LEMMA TotalRuns ==
  ASSUME NEW n \in Nat, NEW xs \in [1..n -> Int]
  PROVE  \E v \in [0..n -> Int] : /\ v[0] = 0 /\ \A k \in 1..n : v[k] = v[k - 1] + xs[k]
                                  /\ TotalOf(xs) = v[n]
<1> DEFINE F == [p \in Int \X (1..n) |-> p[1] + xs[p[2]]]
           Is(h) == h = [s \in SUBSET (DOMAIN xs) |-> IF s = {} THEN 0 ELSE h[s \ {Max(s)}] + xs[Max(s)]]
           H == CHOOSE h : Is(h)
<1>0. DOMAIN xs = 1..n
  OBVIOUS
<1>1. \A a \in Int, k \in 1..n : F[<<a, k>>] = a + xs[k]
  OBVIOUS
<1>11. F \in [Int \X (1..n) -> Int]
  OBVIOUS
<1> HIDE DEF F
<1>12. \E g \in [SUBSET (1..n) -> Int] : IsRun(g, F, 0, n)
  <2> DEFINE A == Int  zero == 0
  <2>1. zero \in A /\ F \in [A \X (1..n) -> A]
    BY <1>11
  <2> HIDE DEF A, zero
  <2>2. \E g \in [SUBSET (1..n) -> A] : IsRun(g, F, zero, n)
    BY <2>1, RunExists
  <2> QED BY <2>2 DEF A, zero
<1>2. PICK g \in [SUBSET (1..n) -> Int] : IsRun(g, F, 0, n)
  BY <1>12
<1>3. \A s \in SUBSET (1..n) : g[s] = IF s = {} THEN 0 ELSE g[s \ {Max(s)}] + xs[Max(s)]
  BY <1>1, <1>2, MaxIn DEF IsRun
<1>4. Is(g)
  BY <1>0, <1>3
<1>5. Is(H)
  BY <1>4
<1>6. TotalOf(xs) = H[1..n]
  BY <1>0 DEF TotalOf, FoldLeft, MapThenFoldSet
<1> HIDE DEF H
<1>7. \A s \in SUBSET (1..n) : H[s] = IF s = {} THEN 0 ELSE H[s \ {Max(s)}] + xs[Max(s)]
  BY <1>0, <1>5
<1> HIDE DEF Is
<1>8. H[{}] = 0 /\ \A k \in 1..n : H[1..k] = H[1..(k - 1)] + xs[k]
  BY <1>7, PrefixRun
<1>81. \A k \in 1..n : H[1..(k - 1)] \in Int => H[1..k] = F[<<H[1..(k - 1)], k>>]
  BY <1>1, <1>8
<1>82. \E v \in [0..n -> Int] : Passes(v, F, 0, n) /\ v[n] = H[1..n]
  <2> DEFINE A == Int  zero == 0
  <2>1. zero \in A /\ F \in [A \X (1..n) -> A]
    BY <1>11
  <2>2. Follows(H, A, F, zero, n)
    BY <1>8, <1>81 DEF Follows
  <2> HIDE DEF A, zero
  <2>3. Reaches(H[1..n], A, F, zero, n)
    BY <2>1, <2>2, RunPasses
  <2> QED BY <2>3 DEF A, zero, Reaches
<1>9. PICK v \in [0..n -> Int] : Passes(v, F, 0, n) /\ v[n] = H[1..n]
  BY <1>82
<1>10. \A k \in 1..n : v[k] = v[k - 1] + xs[k]
  <2> SUFFICES ASSUME NEW k \in 1..n PROVE v[k] = v[k - 1] + xs[k]
    OBVIOUS
  <2>1. v[k - 1] \in Int
    BY <1>9
  <2> QED
    BY <1>1, <1>9, <2>1 DEF Passes
<1> QED
  BY <1>6, <1>9, <1>10 DEF Passes

\* Whoever starts at 0 and adds the numbers one by one ends at their total.
LEMMA TotalIs ==
  ASSUME NEW n \in Nat, NEW xs \in [1..n -> Int], NEW v,
         v[0] = 0, \A k \in 1..n : v[k] = v[k - 1] + xs[k]
  PROVE  TotalOf(xs) = v[n] /\ TotalOf(xs) \in Int
<1>1. PICK w \in [0..n -> Int] : w[0] = 0 /\ (\A k \in 1..n : w[k] = w[k - 1] + xs[k]) /\ TotalOf(xs) = w[n]
  BY TotalRuns
<1> DEFINE Wrong == {k \in 0..n : v[k] # w[k]}
<1>2. ASSUME NEW m \in Wrong, \A q \in Wrong : m <= q PROVE FALSE
  <2>1. m \in 1..n /\ v[m] # w[m] /\ m - 1 \in 0..n
    BY <1>1
  <2>2. v[m - 1] = w[m - 1]
    BY <1>2, <2>1
  <2> QED
    BY <1>1, <2>1, <2>2
<1>3. \A k \in 0..n : v[k] = w[k]
  <2>1. Wrong \in SUBSET Nat
    OBVIOUS
  <2>2. Wrong = {}
    <3> HIDE DEF Wrong
    <3> QED BY <1>2, <2>1, LeastCount
  <2> QED BY <2>2
<1> QED
  BY <1>1, <1>3

LEMMA TotalExtended ==
  ASSUME NEW n \in Nat, NEW xs \in [1..n -> Int], NEW ys \in [1..(n + 1) -> Int],
         \A i \in 1..n : ys[i] = xs[i]
  PROVE  TotalOf(ys) = TotalOf(xs) + ys[n + 1]
<1>1. PICK w \in [0..n -> Int] : w[0] = 0 /\ (\A k \in 1..n : w[k] = w[k - 1] + xs[k]) /\ TotalOf(xs) = w[n]
  BY TotalRuns
<1> DEFINE v == [k \in 0..(n + 1) |-> IF k = n + 1 THEN w[n] + ys[n + 1] ELSE w[k]]
<1>2. v[0] = 0
  BY <1>1
<1>3. \A k \in 1..(n + 1) : v[k] = v[k - 1] + ys[k]
  <2> SUFFICES ASSUME NEW k \in 1..(n + 1) PROVE v[k] = v[k - 1] + ys[k]
    OBVIOUS
  <2>1. CASE k = n + 1
    BY <2>1
  <2>2. CASE k # n + 1
    BY <1>1, <2>2
  <2> QED
    BY <2>1, <2>2
<1>4. v[n + 1] = w[n] + ys[n + 1]
  OBVIOUS
<1> HIDE DEF v
<1>5. TotalOf(ys) = v[n + 1]
  <2> DEFINE m == n + 1
  <2>1. m \in Nat
    OBVIOUS
  <2>2. ys \in [1..m -> Int] /\ \A k \in 1..m : v[k] = v[k - 1] + ys[k]
    BY <1>3
  <2> HIDE DEF m
  <2>3. TotalOf(ys) = v[m]
    BY <1>2, <2>1, <2>2, TotalIs
  <2> QED
    BY <2>3 DEF m
<1> QED
  BY <1>1, <1>4, <1>5

AddsUp(zs, xs, ys, n) == \A i \in 1..n : zs[i] = xs[i] + ys[i]

LEMMA TotalAdds ==
  ASSUME NEW n \in Nat, NEW xs \in [1..n -> Int], NEW ys \in [1..n -> Int], NEW zs \in [1..n -> Int],
         AddsUp(zs, xs, ys, n)
  PROVE  TotalOf(zs) = TotalOf(xs) + TotalOf(ys)
<1>1. PICK v \in [0..n -> Int] : v[0] = 0 /\ (\A k \in 1..n : v[k] = v[k - 1] + xs[k]) /\ TotalOf(xs) = v[n]
  BY TotalRuns
<1>2. PICK w \in [0..n -> Int] : w[0] = 0 /\ (\A k \in 1..n : w[k] = w[k - 1] + ys[k]) /\ TotalOf(ys) = w[n]
  BY TotalRuns
<1> DEFINE u == [k \in 0..n |-> v[k] + w[k]]
<1>3. u[0] = 0 /\ u[n] = v[n] + w[n]
  BY <1>1, <1>2
<1>4. \A k \in 1..n : u[k] = u[k - 1] + zs[k]
  BY <1>1, <1>2 DEF AddsUp
<1> HIDE DEF u
<1> QED
  BY <1>1, <1>2, <1>3, <1>4, TotalIs

\* Where all numbers but one are 0, that one is the total.
LEMMA TotalOfOne ==
  ASSUME NEW n \in Nat, NEW xs \in [1..n -> Int], NEW j \in 1..n, \A i \in 1..n : i # j => xs[i] = 0
  PROVE  TotalOf(xs) = xs[j]
<1> DEFINE v == [k \in 0..n |-> IF k < j THEN 0 ELSE xs[j]]
<1>1. v[0] = 0 /\ v[n] = xs[j]
  OBVIOUS
<1>2. \A k \in 1..n : v[k] = v[k - 1] + xs[k]
  <2> SUFFICES ASSUME NEW k \in 1..n PROVE v[k] = v[k - 1] + xs[k]
    OBVIOUS
  <2>1. CASE k < j
    BY <2>1
  <2>2. CASE k = j
    BY <2>2
  <2>3. CASE k > j
    BY <2>3
  <2> QED
    BY <2>1, <2>2, <2>3
<1> HIDE DEF v
<1> QED
  BY <1>1, <1>2, TotalIs

LEMMA TotalOfNone ==
  ASSUME NEW n \in Nat, NEW xs \in [1..n -> Int], \A i \in 1..n : xs[i] = 0
  PROVE  TotalOf(xs) = 0
<1> DEFINE v == [k \in 0..n |-> 0]
<1>1. v[0] = 0 /\ v[n] = 0 /\ \A k \in 1..n : v[k] = v[k - 1] + xs[k]
  OBVIOUS
<1> HIDE DEF v
<1> QED
  BY <1>1, TotalIs

-----------------------------------------------------------------------------
(* Profit and loss                                                         *)

Costs == [qty : Nat, cost : Int, realized : Int, unknown : Nat]

FillSet == {NoFill} \cup [kind : {"in"}, qty : Nat \ {0}, cash : Int] \cup [kind : {"out"}, qty : Nat \ {0}, cash : Int]

NoCost == [qty |-> 0, cost |-> 0, realized |-> 0, unknown |-> 0]

\* Whole amounts divide by themselves.
LEMMA WholeDivides ==
  ASSUME NEW a \in Int, NEW b \in Nat \ {0}
  PROVE  (a * b) \div b = a
  OBVIOUS

LEMMA CostsStay ==
  ASSUME NEW c \in Costs, NEW f \in FillSet
  PROVE  Averaged(c, f) \in Costs
<1>1. CASE f.kind = "in"
  <2>1. f.qty \in Nat /\ f.cash \in Int
    BY DEF FillSet, NoFill
  <2>2. c.qty + f.qty \in Nat /\ c.cost + f.cash \in Int
    BY <2>1 DEF Costs
  <2>3. \A x \in Nat, y \in Int : [c EXCEPT !.qty = x, !.cost = y] \in Costs
    BY DEF Costs
  <2> QED
    BY <1>1, <2>2, <2>3 DEF Averaged
<1>2. CASE f.kind # "in"
  <2>1. f \in [kind : {"out"}, qty : Nat \ {0}, cash : Int]
    BY <1>2 DEF FillSet, NoFill
  <2> DEFINE closed == IF f.qty < c.qty THEN f.qty ELSE c.qty
             costOut == IF c.qty > 0 THEN (c.cost * closed) \div c.qty ELSE 0
             got == (f.cash * closed) \div f.qty
  <2>2. closed \in Nat /\ closed <= c.qty /\ closed <= f.qty
    BY <2>1 DEF Costs
  <2>3. costOut \in Int
    <3>1. c.cost * closed \in Int
      BY <2>2 DEF Costs
    <3> HIDE DEF closed
    <3>2. CASE c.qty > 0
      BY <3>1, <3>2 DEF Costs
    <3> QED BY <3>2
  <2>4. got \in Int
    <3>1. f.cash * closed \in Int /\ f.qty \in Nat /\ f.qty > 0
      BY <2>1, <2>2
    <3> HIDE DEF closed
    <3> QED BY <3>1
  <2>5. Averaged(c, f) = [qty |-> c.qty - closed, cost |-> c.cost - costOut,
                          realized |-> c.realized + got - costOut, unknown |-> c.unknown + f.qty - closed]
    BY <1>2 DEF Averaged, Removed
  <2> HIDE DEF closed, costOut, got
  <2> QED
    BY <2>1, <2>2, <2>3, <2>4, <2>5 DEF Costs
<1> QED
  BY <1>1, <1>2 DEF FillSet, NoFill

\* What a fill leaves: as long as all that leaves was there, the realized part less
\* the cost moves by the cash of the fill.
LEMMA FillMoves ==
  ASSUME NEW c \in Costs, NEW f \in FillSet, c.qty = 0 => c.cost = 0
  PROVE  LET r == Averaged(c, f) IN
         /\ r.qty = 0 => r.cost = 0
         /\ r.unknown = 0 =>
              /\ c.unknown = 0
              /\ r.realized - r.cost = c.realized - c.cost + (IF f.kind = "in" THEN 0 - f.cash ELSE f.cash)
              /\ r.qty = (IF f.kind = "in" THEN c.qty + f.qty ELSE c.qty - f.qty)
<1> DEFINE r == Averaged(c, f)
<1>1. CASE f.kind = "in"
  <2>1. r = [c EXCEPT !.qty = c.qty + f.qty, !.cost = c.cost + f.cash]
    BY <1>1 DEF Averaged
  <2>2. r.qty = c.qty + f.qty /\ r.cost = c.cost + f.cash /\ r.realized = c.realized /\ r.unknown = c.unknown
    BY <2>1 DEF Costs
  <2>3. f.qty \in Nat /\ f.cash \in Int /\ (f.qty = 0 => f.cash = 0)
    BY DEF FillSet, NoFill
  <2> HIDE DEF r
  <2>4. (r.qty = 0 => r.cost = 0)
    BY <2>2, <2>3 DEF Costs
  <2>5. r.realized - r.cost = c.realized - c.cost - f.cash
    BY <2>2, <2>3 DEF Costs
  <2> QED
    BY <1>1, <2>2, <2>3, <2>4, <2>5 DEF Costs, r
<1>2. CASE f.kind # "in"
  <2>1. f \in [kind : {"out"}, qty : Nat \ {0}, cash : Int]
    BY <1>2 DEF FillSet, NoFill
  <2> DEFINE closed == IF f.qty < c.qty THEN f.qty ELSE c.qty
             costOut == IF c.qty > 0 THEN (c.cost * closed) \div c.qty ELSE 0
             got == (f.cash * closed) \div f.qty
  <2>2. closed \in Nat /\ closed <= c.qty /\ closed <= f.qty
    BY <2>1 DEF Costs
  <2>3. costOut \in Int
    <3>1. c.cost * closed \in Int
      BY <2>2 DEF Costs
    <3> HIDE DEF closed
    <3>2. CASE c.qty > 0
      BY <3>1, <3>2 DEF Costs
    <3> QED BY <3>2
  <2>4. got \in Int
    <3>1. f.cash * closed \in Int /\ f.qty \in Nat /\ f.qty > 0
      BY <2>1, <2>2
    <3> HIDE DEF closed
    <3> QED BY <3>1
  <2>5. r = [qty |-> c.qty - closed, cost |-> c.cost - costOut,
             realized |-> c.realized + got - costOut, unknown |-> c.unknown + f.qty - closed]
    BY <1>2 DEF Averaged, Removed
  <2>6. closed = c.qty /\ c.qty > 0 => costOut = c.cost
    BY <2>2, WholeDivides DEF Costs
  <2>7. closed = f.qty => got = f.cash
    BY <2>1, WholeDivides
  <2>8. c.qty = 0 => costOut = 0
    BY DEF Costs
  <2>9. f.qty \in Nat /\ f.cash \in Int
    BY <2>1
  <2> HIDE DEF closed, costOut, got
  <2>10. r.qty = c.qty - closed /\ r.cost = c.cost - costOut /\ r.realized = c.realized + got - costOut
         /\ r.unknown = c.unknown + f.qty - closed
    BY <2>5
  <2> HIDE DEF r
  <2>11. r.qty = 0 => r.cost = 0
    BY <2>10, <2>2, <2>3, <2>6, <2>8 DEF Costs
  <2>12. r.unknown = 0 => c.unknown = 0 /\ closed = f.qty
    <3>1. c.unknown \in Nat
      BY DEF Costs
    <3>2. \A u, q, k \in Nat : k <= q /\ u + q - k = 0 => u = 0 /\ k = q
      OBVIOUS
    <3>3. c.unknown + f.qty - closed = 0 => c.unknown = 0 /\ closed = f.qty
      BY <2>2, <2>9, <3>1, <3>2
    <3>4. r.unknown = c.unknown + f.qty - closed
      BY <2>10
    <3> QED
      BY <3>3, <3>4
  <2>13. closed = f.qty => r.realized - r.cost = c.realized - c.cost + f.cash
    BY <2>10, <2>3, <2>4, <2>7, <2>9 DEF Costs
  <2> QED
    BY <1>2, <2>10, <2>11, <2>12, <2>13 DEF r
<1> QED
  BY <1>1, <1>2 DEF FillSet, NoFill

LEMMA NoFillNoMove ==
  ASSUME NEW c \in Costs
  PROVE  NoFill \in FillSet /\ Averaged(c, NoFill) = c
<1>1. Averaged(c, NoFill) = [c EXCEPT !.qty = c.qty + 0, !.cost = c.cost + 0]
  BY DEF Averaged, NoFill
<1>2. c.qty + 0 = c.qty /\ c.cost + 0 = c.cost
  BY DEF Costs
<1>3. [c EXCEPT !.qty = c.qty, !.cost = c.cost] = c
  BY DEF Costs
<1>4. NoFill \in FillSet
  BY DEF FillSet
<1> QED
  BY <1>1, <1>2, <1>3, <1>4

LEMMA AverageRuns ==
  ASSUME NEW n \in Nat, NEW xs \in [1..n -> FillSet]
  PROVE  \E v \in [0..n -> Costs] : /\ v[0] = NoCost /\ \A k \in 1..n : v[k] = Averaged(v[k - 1], xs[k])
                                    /\ AverageCost(xs) = v[n]
<1> DEFINE F == [p \in Costs \X (1..n) |-> Averaged(p[1], xs[p[2]])]
           Is(h) == h = [s \in SUBSET (DOMAIN xs) |-> IF s = {} THEN NoCost ELSE Averaged(h[s \ {Max(s)}], xs[Max(s)])]
           H == CHOOSE h : Is(h)
<1>0. DOMAIN xs = 1..n
  OBVIOUS
<1>1. \A a \in Costs, k \in 1..n : F[<<a, k>>] = Averaged(a, xs[k])
  OBVIOUS
<1>11. F \in [Costs \X (1..n) -> Costs]
  <2> SUFFICES ASSUME NEW p \in Costs \X (1..n) PROVE Averaged(p[1], xs[p[2]]) \in Costs
    OBVIOUS
  <2> QED
    BY CostsStay
<1>10. NoCost \in Costs
  BY DEF NoCost, Costs
<1> HIDE DEF F
<1>12. \E g \in [SUBSET (1..n) -> Costs] : IsRun(g, F, NoCost, n)
  BY <1>10, <1>11, RunExists
<1>2. PICK g \in [SUBSET (1..n) -> Costs] : IsRun(g, F, NoCost, n)
  BY <1>12
<1>3. \A s \in SUBSET (1..n) : g[s] = IF s = {} THEN NoCost ELSE Averaged(g[s \ {Max(s)}], xs[Max(s)])
  <2> SUFFICES ASSUME NEW s \in SUBSET (1..n), s # {}
               PROVE  F[<<g[s \ {Max(s)}], Max(s)>>] = Averaged(g[s \ {Max(s)}], xs[Max(s)])
    BY <1>2 DEF IsRun
  <2>1. Max(s) \in 1..n
    BY MaxIn
  <2>2. g[s \ {Max(s)}] \in Costs
    BY <1>2
  <2> QED
    BY <1>1, <2>1, <2>2
<1>4. Is(g)
  BY <1>0, <1>3
<1>5. Is(H)
  BY <1>4
<1>6. AverageCost(xs) = H[1..n]
  BY <1>0 DEF AverageCost, FoldLeft, MapThenFoldSet, NoCost
<1> HIDE DEF H
<1>7. \A s \in SUBSET (1..n) : H[s] = IF s = {} THEN NoCost ELSE Averaged(H[s \ {Max(s)}], xs[Max(s)])
  BY <1>0, <1>5
<1> HIDE DEF Is
<1>8. H[{}] = NoCost /\ \A k \in 1..n : H[1..k] = Averaged(H[1..(k - 1)], xs[k])
  BY <1>7, PrefixRun
<1>81. Follows(H, Costs, F, NoCost, n)
  BY <1>1, <1>8 DEF Follows
<1>82. \E v \in [0..n -> Costs] : Passes(v, F, NoCost, n) /\ v[n] = H[1..n]
  <2>1. Reaches(H[1..n], Costs, F, NoCost, n)
    BY <1>10, <1>11, <1>81, RunPasses
  <2> QED
    BY <2>1 DEF Reaches
<1>9. PICK v \in [0..n -> Costs] : Passes(v, F, NoCost, n) /\ v[n] = H[1..n]
  BY <1>82
<1>13. \A k \in 1..n : v[k] = Averaged(v[k - 1], xs[k])
  <2> SUFFICES ASSUME NEW k \in 1..n PROVE v[k] = Averaged(v[k - 1], xs[k])
    OBVIOUS
  <2>1. v[k - 1] \in Costs
    BY <1>9
  <2> QED
    BY <1>1, <1>9, <2>1 DEF Passes
<1> QED
  BY <1>6, <1>9, <1>13 DEF Passes

LEMMA AverageIs ==
  ASSUME NEW n \in Nat, NEW xs \in [1..n -> FillSet], NEW v,
         v[0] = NoCost, \A k \in 1..n : v[k] = Averaged(v[k - 1], xs[k])
  PROVE  AverageCost(xs) = v[n] /\ AverageCost(xs) \in Costs
<1>1. PICK w \in [0..n -> Costs] : w[0] = NoCost /\ (\A k \in 1..n : w[k] = Averaged(w[k - 1], xs[k])) /\ AverageCost(xs) = w[n]
  BY AverageRuns
<1> DEFINE Wrong == {k \in 0..n : v[k] # w[k]}
<1>2. ASSUME NEW m \in Wrong, \A q \in Wrong : m <= q PROVE FALSE
  <2>1. m \in 1..n /\ v[m] # w[m] /\ m - 1 \in 0..n
    BY <1>1
  <2>2. v[m - 1] = w[m - 1]
    BY <1>2, <2>1
  <2> QED
    BY <1>1, <2>1, <2>2
<1>3. \A k \in 0..n : v[k] = w[k]
  <2>1. Wrong \in SUBSET Nat
    OBVIOUS
  <2>2. Wrong = {}
    <3> HIDE DEF Wrong
    <3> QED BY <1>2, <2>1, LeastCount
  <2> QED BY <2>2
<1> QED
  BY <1>1, <1>3

LEMMA AverageExtended ==
  ASSUME NEW n \in Nat, NEW xs \in [1..n -> FillSet], NEW ys \in [1..(n + 1) -> FillSet],
         \A i \in 1..n : ys[i] = xs[i]
  PROVE  AverageCost(xs) \in Costs /\ AverageCost(ys) = Averaged(AverageCost(xs), ys[n + 1])
<1>1. PICK w \in [0..n -> Costs] : w[0] = NoCost /\ (\A k \in 1..n : w[k] = Averaged(w[k - 1], xs[k])) /\ AverageCost(xs) = w[n]
  BY AverageRuns
<1> DEFINE v == [k \in 0..(n + 1) |-> IF k = n + 1 THEN Averaged(w[n], ys[n + 1]) ELSE w[k]]
<1>2. v[0] = NoCost
  BY <1>1
<1>3. \A k \in 1..(n + 1) : v[k] = Averaged(v[k - 1], ys[k])
  <2> SUFFICES ASSUME NEW k \in 1..(n + 1) PROVE v[k] = Averaged(v[k - 1], ys[k])
    OBVIOUS
  <2>1. CASE k = n + 1
    BY <2>1
  <2>2. CASE k # n + 1
    <3>1. k \in 1..n /\ k - 1 \in 0..n
      BY <2>2
    <3>2. v[k] = w[k] /\ v[k - 1] = w[k - 1] /\ ys[k] = xs[k]
      BY <3>1
    <3> QED BY <1>1, <3>1, <3>2
  <2> QED
    BY <2>1, <2>2
<1>4. v[n + 1] = Averaged(w[n], ys[n + 1])
  OBVIOUS
<1> HIDE DEF v
<1>5. AverageCost(ys) = v[n + 1]
  <2> DEFINE m == n + 1
  <2>1. m \in Nat
    OBVIOUS
  <2>2. ys \in [1..m -> FillSet] /\ \A k \in 1..m : v[k] = Averaged(v[k - 1], ys[k])
    BY <1>3
  <2> HIDE DEF m
  <2>3. AverageCost(ys) = v[m]
    BY <1>2, <2>1, <2>2, AverageIs
  <2> QED
    BY <2>3 DEF m
<1> QED
  BY <1>1, <1>4, <1>5

Stamps == [tx : Nat, block : Nat]

\* What a log tells, by its event.
Entries ==
  [ev : {"buy"}, qty : {1}, premium : Int, fee : Int, at : Stamps]
    \cup [ev : {"sell"}, qty : Nat \ {0}, premium : Int, at : Stamps]
    \cup [ev : {"mint"}, qty : {1}, fee : Int, own : BOOLEAN, at : Stamps]
    \cup [ev : {"balance"}, delta : Int, balance : Int, at : Stamps]
    \cup [ev : {"redeem"}, qty : Nat \ {0}, payout : Int, at : Stamps]
    \cup [ev : {"liquidation", "settled"}, at : Stamps]

\* The cash an event itself moved; and the part of it that is told by a fill.
CashOf(e) ==
  CASE e.ev = "buy" -> -Cost(e) [] e.ev = "mint" -> -e.fee
    [] e.ev = "sell" -> e.premium [] e.ev = "redeem" -> e.payout [] OTHER -> 0
OwnCash(e) == IF e.ev = "mint" /\ ~e.own THEN 0 ELSE CashOf(e)

CashTotal == TotalOf([i \in DOMAIN log |-> CashOf(log[i])])
OwnTotal == TotalOf([i \in DOMAIN log |-> OwnCash(log[i])])

HistoryTypes ==
  /\ log \in Seq(Entries)
  /\ tx \in Nat /\ block \in Nat /\ crowd \in Nat
  /\ wallet \in Nat /\ account \in Int /\ earned \in Int /\ credit \in Nat /\ unpaid \in Int
  /\ state \in {"active", "expired", "final"} /\ price \in Int /\ ratio \in 0..2

\* A log is of a transaction so far, and its transaction of one block.
StampsFit ==
  \A i, j \in DOMAIN log : /\ log[i].at.tx <= tx
                           /\ log[i].at.tx = log[j].at.tx => log[i].at = log[j].at

Debt(d) == IF d > 0 THEN d * Pays(price) ELSE 0

\* Nothing is settled yet; or one balance was, told by log k beside log j.
NotSettled == /\ \A i \in DOMAIN log : log[i].ev # "settled"
              /\ credit = 0 /\ unpaid = 0 /\ earned = CashTotal
SettledAt(k, j) ==
  /\ log[k].ev = "balance" /\ log[j].ev = "settled" /\ log[k].at = log[j].at
  /\ \A i \in DOMAIN log : log[i].ev = "settled" => i = j
  /\ \A i \in DOMAIN log : log[i].ev = "balance" /\ log[i].at.tx = log[k].at.tx => i = k
  /\ account = 0 /\ state = "final"
  /\ credit = (IF log[k].delta < 0 THEN -log[k].delta ELSE 0)
  /\ earned - unpaid = CashTotal - Debt(log[k].delta)
SettledOnce == NotSettled \/ \E k, j \in DOMAIN log : SettledAt(k, j)

\* What average cost keeps, over the fills of the logs.
Kept == AverageCost(Fills("logs"))
KeptSound ==
  /\ Kept.qty = 0 => Kept.cost = 0
  /\ Kept.unknown = 0 => /\ Kept.realized - Kept.cost = OwnTotal
                         /\ astray \/ Kept.qty <= wallet

HistoryInv ==
  /\ HistoryTypes /\ StampsFit /\ AccountQty = account /\ SettledOnce /\ KeptSound


LEMMA EntryParts ==
  ASSUME NEW e \in Entries
  PROVE  /\ e.ev \in {"buy", "sell", "mint", "balance", "redeem", "liquidation", "settled"}
         /\ e.at \in Stamps /\ e.at.tx \in Nat /\ e.at.block \in Nat
         /\ e.ev = "buy" => e.qty = 1 /\ e.premium \in Int /\ e.fee \in Int
         /\ e.ev = "sell" => e.qty \in Nat \ {0} /\ e.premium \in Int
         /\ e.ev = "mint" => e.qty = 1 /\ e.fee \in Int /\ e.own \in BOOLEAN
         /\ e.ev = "balance" => e.delta \in Int /\ e.balance \in Int
         /\ e.ev = "redeem" => e.qty \in Nat \ {0} /\ e.payout \in Int
  BY DEF Entries, Stamps

LEMMA CashTypes ==
  ASSUME NEW e \in Entries
  PROVE  CashOf(e) \in Int /\ OwnCash(e) \in Int
  BY EntryParts DEF CashOf, OwnCash, Cost

LEMMA NoFillFacts == NoFill \in FillSet /\ NoFill.kind = "in" /\ NoFill.cash = 0 /\ NoFill.qty = 0
  BY DEF NoFill, FillSet

\* The fill of a log tells its cash, apart from options written for others.
LEMMA FillTells ==
  ASSUME NEW e \in Entries, NEW source
  PROVE  LET f == FillOf(e, source) IN
         /\ f \in FillSet
         /\ OwnCash(e) = (IF f.kind = "in" THEN 0 - f.cash ELSE f.cash)
<1> DEFINE f == FillOf(e, source)
<1>0. e.ev = "balance" => ClosedQty(e, source) \in Int
  BY EntryParts DEF ClosedQty
<1>00. e.ev # "balance" => ClosedQty(e, source) = 0
  BY DEF ClosedQty
<1>1. CASE e.ev = "buy"
  <2>1. f = [kind |-> "in", qty |-> 1, cash |-> e.premium + e.fee]
    BY <1>1, <1>00, EntryParts DEF FillOf
  <2>2. OwnCash(e) = -(e.premium + e.fee)
    BY <1>1 DEF OwnCash, CashOf, Cost
  <2> QED
    BY <1>1, <2>1, <2>2, EntryParts DEF FillSet
<1>2. CASE e.ev = "mint" /\ e.own
  <2>1. f = [kind |-> "in", qty |-> 1, cash |-> e.fee]
    BY <1>2, <1>00, EntryParts DEF FillOf
  <2>2. OwnCash(e) = -e.fee
    BY <1>2 DEF OwnCash, CashOf, Cost
  <2> QED
    BY <1>2, <2>1, <2>2, EntryParts DEF FillSet
<1>3. CASE e.ev = "sell"
  <2>1. f = [kind |-> "out", qty |-> e.qty, cash |-> e.premium]
    BY <1>3, <1>00, EntryParts DEF FillOf
  <2>2. OwnCash(e) = e.premium
    BY <1>3 DEF OwnCash, CashOf, Cost
  <2> QED
    BY <1>3, <2>1, <2>2, EntryParts DEF FillSet
<1>4. CASE e.ev = "redeem"
  <2>1. f = [kind |-> "out", qty |-> e.qty, cash |-> e.payout]
    BY <1>4, <1>00, EntryParts DEF FillOf
  <2>2. OwnCash(e) = e.payout
    BY <1>4 DEF OwnCash, CashOf, Cost
  <2> QED
    BY <1>4, <2>1, <2>2, EntryParts DEF FillSet
<1>5. CASE e.ev = "balance"
  <2>0. OwnCash(e) = 0
    BY <1>5 DEF OwnCash, CashOf
  <2>1. CASE ClosedQty(e, source) > 0
    <3>1. f = [kind |-> "out", qty |-> ClosedQty(e, source), cash |-> 0]
      BY <1>5, <2>1 DEF FillOf
    <3> QED
      BY <1>0, <1>5, <2>0, <2>1, <3>1 DEF FillSet
  <2>2. CASE ~(ClosedQty(e, source) > 0)
    <3>1. f = NoFill
      BY <1>5, <2>2 DEF FillOf
    <3> QED
      BY <2>0, <3>1, NoFillFacts
  <2> QED
    BY <2>1, <2>2
<1>6. CASE (e.ev = "mint" /\ ~e.own) \/ e.ev \in {"liquidation", "settled"}
  <2>0. OwnCash(e) = 0
    BY <1>6 DEF OwnCash, CashOf
  <2>1. f = NoFill
    BY <1>00, <1>6 DEF FillOf
  <2> QED
    BY <2>0, <2>1, NoFillFacts
<1> QED
  BY <1>1, <1>2, <1>3, <1>4, <1>5, <1>6, EntryParts

LEMMA PaysTypes ==
  ASSUME HistoryTypes
  PROVE  Pays(price) \in Int /\ \A x \in Int : AtRatio(x) \in Int
  BY HistoryAssumption DEF HistoryTypes, Pays, AtRatio, Unit

\* What the page counts as paid, as got and as locked in, beside the settlement.
LEMMA PartsOfCash ==
  ASSUME HistoryTypes, NEW e \in Entries, NEW source
  PROVE  LET s == SettledCredit(e, source) - SettledDebt(e, source) IN
         /\ SettledCredit(e, source) \in Int /\ SettledDebt(e, source) \in Int
         /\ PaidBy(e, source) \in Int /\ GotBy(e, source) \in Int /\ LockedInBy(e, source) \in Int
         /\ GotBy(e, source) - PaidBy(e, source) = CashOf(e) + s
         /\ GotBy(e, source) - PaidBy(e, source) - LockedInBy(e, source) = OwnCash(e)
<1>1. SettledCredit(e, source) \in Int /\ SettledDebt(e, source) \in Int
  <2>1. e.ev = "balance" => -e.delta * Pays(price) \in Int /\ e.delta * Pays(price) \in Int
    BY PaysTypes, EntryParts
  <2>2. Settles(e, source) => e.ev = "balance"
    BY DEF Settles
  <2> QED
    BY <2>1, <2>2, PaysTypes DEF SettledCredit, SettledDebt
<1>2. e.ev # "balance" => SettledCredit(e, source) = 0 /\ SettledDebt(e, source) = 0
  BY DEF SettledCredit, SettledDebt, Settles
<1>3. CASE e.ev = "mint"
  BY <1>2, <1>3, EntryParts DEF PaidBy, GotBy, LockedInBy, CashOf, OwnCash
<1>4. CASE e.ev \in {"buy", "sell", "redeem"}
  BY <1>2, <1>4, EntryParts DEF PaidBy, GotBy, LockedInBy, CashOf, OwnCash, Cost
<1>5. CASE e.ev \in {"balance", "liquidation", "settled"}
  BY <1>1, <1>5 DEF PaidBy, GotBy, LockedInBy, CashOf, OwnCash
<1> QED
  BY <1>1, <1>3, <1>4, <1>5, EntryParts

LEMMA TotalInt ==
  ASSUME NEW n \in Nat, NEW xs \in [1..n -> Int]
  PROVE  TotalOf(xs) \in Int
  BY TotalRuns

LEMMA LogParts ==
  ASSUME HistoryTypes
  PROVE  /\ Len(log) \in Nat /\ DOMAIN log = 1..Len(log)
         /\ \A i \in 1..Len(log) : log[i] \in Entries
  BY DEF HistoryTypes

\* Nothing settled settles; else the one log does, whichever history tells of it.
LEMMA NoneSettles ==
  ASSUME HistoryInv, NotSettled, NEW i \in DOMAIN log, NEW source
  PROVE  ~Settles(log[i], source)
  BY DEF NotSettled, Settles, Beside

LEMMA OneSettles ==
  ASSUME HistoryInv, NEW k \in DOMAIN log, NEW j \in DOMAIN log, SettledAt(k, j), NEW i \in DOMAIN log,
         NEW source \in Sources, Told(source)
  PROVE  Settles(log[i], source) <=> i = k
<1>0. log[k].ev = "balance" /\ log[j].ev = "settled" /\ log[k].at = log[j].at
  BY DEF SettledAt
<1>1. Settles(log[i], "logs") => i = k
  BY DEF SettledAt, Settles, Beside, KeyOf
<1>2. Settles(log[k], source)
  BY <1>0 DEF Settles, Beside, KeyOf
<1>3. ASSUME Settles(log[i], "indexer"), ~Hurried PROVE i = k
  <2>1. log[i].ev = "balance" /\ log[i].at.block = log[j].at.block
    BY <1>3 DEF SettledAt, Settles, Beside, KeyOf
  <2>2. log[i].at.tx = log[j].at.tx
    BY <1>0, <1>3, <2>1 DEF Hurried
  <2> QED
    BY <1>0, <2>1, <2>2 DEF SettledAt
<1> QED
  BY <1>1, <1>2, <1>3 DEF Sources, Told

LEMMA SourcesAgree ==
  ASSUME HistoryInv, NEW i \in DOMAIN log, NEW source \in Sources, Told(source)
  PROVE  Settles(log[i], source) <=> Settles(log[i], "logs")
<1>0. "logs" \in Sources /\ Told("logs")
  BY DEF Sources, Told
<1>1. CASE NotSettled
  BY <1>1, NoneSettles
<1>2. CASE \E k, j \in DOMAIN log : SettledAt(k, j)
  <2>1. PICK k \in DOMAIN log, j \in DOMAIN log : SettledAt(k, j)
    BY <1>2
  <2>2. Settles(log[i], source) <=> i = k
    BY <2>1, OneSettles
  <2>3. Settles(log[i], "logs") <=> i = k
    BY <1>0, <2>1, OneSettles
  <2> QED
    BY <2>2, <2>3
<1> QED
  BY <1>1, <1>2 DEF HistoryInv, SettledOnce

LEMMA FillsAgree ==
  ASSUME HistoryInv, NEW source \in Sources, Told(source)
  PROVE  Fills(source) = Fills("logs")
<1> SUFFICES ASSUME NEW i \in DOMAIN log PROVE FillOf(log[i], source) = FillOf(log[i], "logs")
  BY DEF Fills
<1>1. ClosedQty(log[i], source) = ClosedQty(log[i], "logs")
  BY SourcesAgree DEF ClosedQty
<1> QED
  BY <1>1 DEF FillOf

SettledCash(e, source) == SettledCredit(e, source) - SettledDebt(e, source)

\* The cash the page counts is the cash of the events and of the settlement.
LEMMA CashCounted ==
  ASSUME HistoryInv, NEW source
  PROVE  /\ Received(source) \in Int /\ Paid(source) \in Int /\ OtherRealized(source) \in Int
         /\ CashTotal \in Int /\ OwnTotal \in Int
         /\ TotalOf([i \in DOMAIN log |-> SettledCash(log[i], source)]) \in Int
         /\ Received(source) - Paid(source) =
              CashTotal + TotalOf([i \in DOMAIN log |-> SettledCash(log[i], source)])
         /\ Received(source) - Paid(source) - OtherRealized(source) = OwnTotal
<1> DEFINE n == Len(log)
           got == [i \in DOMAIN log |-> GotBy(log[i], source)]
           gave == [i \in DOMAIN log |-> PaidBy(log[i], source)]
           lockedIn == [i \in DOMAIN log |-> LockedInBy(log[i], source)]
           flow == [i \in DOMAIN log |-> CashOf(log[i])]
           own == [i \in DOMAIN log |-> OwnCash(log[i])]
           settling == [i \in DOMAIN log |-> SettledCash(log[i], source)]
           rest == [i \in DOMAIN log |-> CashOf(log[i]) + SettledCash(log[i], source)]
<1>0. HistoryTypes
  BY DEF HistoryInv
<1>1. n \in Nat /\ DOMAIN log = 1..n
  BY <1>0, LogParts
<1>2. \A i \in 1..n :
        /\ GotBy(log[i], source) \in Int /\ PaidBy(log[i], source) \in Int /\ LockedInBy(log[i], source) \in Int
        /\ CashOf(log[i]) \in Int /\ OwnCash(log[i]) \in Int /\ SettledCash(log[i], source) \in Int
        /\ GotBy(log[i], source) - PaidBy(log[i], source) = CashOf(log[i]) + SettledCash(log[i], source)
        /\ GotBy(log[i], source) - PaidBy(log[i], source) - LockedInBy(log[i], source) = OwnCash(log[i])
  <2> SUFFICES ASSUME NEW i \in 1..n
               PROVE  /\ GotBy(log[i], source) \in Int /\ PaidBy(log[i], source) \in Int
                      /\ LockedInBy(log[i], source) \in Int
                      /\ CashOf(log[i]) \in Int /\ OwnCash(log[i]) \in Int /\ SettledCash(log[i], source) \in Int
                      /\ GotBy(log[i], source) - PaidBy(log[i], source) = CashOf(log[i]) + SettledCash(log[i], source)
                      /\ GotBy(log[i], source) - PaidBy(log[i], source) - LockedInBy(log[i], source) = OwnCash(log[i])
    OBVIOUS
  <2>1. log[i] \in Entries
    BY <1>0, LogParts
  <2> QED
    BY <1>0, <2>1, PartsOfCash, CashTypes DEF SettledCash
<1>3. /\ got \in [1..n -> Int] /\ gave \in [1..n -> Int] /\ lockedIn \in [1..n -> Int] /\ flow \in [1..n -> Int]
      /\ own \in [1..n -> Int] /\ settling \in [1..n -> Int]
  BY <1>1, <1>2
<1>4. rest \in [1..n -> Int]
  BY <1>1, <1>2
<1>51. AddsUp(got, gave, rest, n)
  BY <1>1, <1>2 DEF AddsUp
<1>52. AddsUp(rest, flow, settling, n)
  BY <1>1, <1>2 DEF AddsUp
<1>53. AddsUp(rest, lockedIn, own, n)
  BY <1>1, <1>2 DEF AddsUp
<1>6. /\ Received(source) = TotalOf(got) /\ Paid(source) = TotalOf(gave) /\ OtherRealized(source) = TotalOf(lockedIn)
      /\ CashTotal = TotalOf(flow) /\ OwnTotal = TotalOf(own)
  BY DEF Received, Paid, OtherRealized, CashTotal, OwnTotal
<1>61. TotalOf([i \in DOMAIN log |-> SettledCash(log[i], source)]) = TotalOf(settling)
  OBVIOUS
<1> HIDE DEF got, gave, lockedIn, flow, own, settling, rest, n
<1>7. TotalOf(got) = TotalOf(gave) + TotalOf(rest)
  <2>1. n \in Nat /\ got \in [1..n -> Int] /\ gave \in [1..n -> Int]
    BY <1>1, <1>3
  <2> QED
    BY <2>1, <1>4, <1>51, TotalAdds
<1>8. TotalOf(rest) = TotalOf(flow) + TotalOf(settling)
  <2>1. n \in Nat /\ flow \in [1..n -> Int] /\ settling \in [1..n -> Int]
    BY <1>1, <1>3
  <2> QED
    BY <2>1, <1>4, <1>52, TotalAdds
<1>9. TotalOf(rest) = TotalOf(lockedIn) + TotalOf(own)
  <2>1. n \in Nat /\ lockedIn \in [1..n -> Int] /\ own \in [1..n -> Int]
    BY <1>1, <1>3
  <2> QED
    BY <2>1, <1>4, <1>53, TotalAdds
<1>10. /\ TotalOf(got) \in Int /\ TotalOf(gave) \in Int /\ TotalOf(lockedIn) \in Int /\ TotalOf(flow) \in Int
       /\ TotalOf(own) \in Int /\ TotalOf(settling) \in Int
  BY <1>1, <1>3, TotalInt
<1> QED
  BY <1>6, <1>61, <1>7, <1>8, <1>9, <1>10

LEMMA CashIsWhole ==
  ASSUME HistoryInv
  PROVE  CashTotal \in Int
<1>1. Received("logs") \in Int /\ CashTotal \in Int
  BY CashCounted
<1> QED
  BY <1>1

LEMMA AtRatioOfZero ==
  ASSUME HistoryTypes
  PROVE  AtRatio(0) = 0
  BY DEF AtRatio, HistoryTypes

\* The settlement is counted as it was made.
LEMMA SettlementCounted ==
  ASSUME HistoryInv, NEW source \in Sources, Told(source)
  PROVE  CashTotal + TotalOf([i \in DOMAIN log |-> SettledCash(log[i], source)]) =
           earned - unpaid + AtRatio(credit * Pays(price))
<1> DEFINE n == Len(log)
           settling == [i \in DOMAIN log |-> SettledCash(log[i], source)]
<1>0. HistoryTypes
  BY DEF HistoryInv
<1>1. n \in Nat /\ DOMAIN log = 1..n
  BY <1>0, LogParts
<1>2. settling \in [1..n -> Int]
  <2> SUFFICES ASSUME NEW i \in 1..n PROVE SettledCash(log[i], source) \in Int
    BY <1>1
  <2>1. log[i] \in Entries
    BY <1>0, LogParts
  <2> QED
    BY <1>0, <2>1, PartsOfCash DEF SettledCash
<1>3. CashTotal \in Int
  BY CashCounted
<1>4. Pays(price) \in Int /\ \A x \in Int : AtRatio(x) \in Int
  BY <1>0, PaysTypes
<1>5. CASE NotSettled
  <2>1. \A i \in 1..n : settling[i] = 0
    BY <1>1, <1>5, NoneSettles DEF SettledCash, SettledCredit, SettledDebt
  <2> HIDE DEF settling, n
  <2>2. TotalOf(settling) = 0
    BY <1>1, <1>2, <2>1, TotalOfNone
  <2>3. credit = 0 /\ unpaid = 0 /\ earned = CashTotal
    BY <1>5 DEF NotSettled
  <2>4. AtRatio(credit * Pays(price)) = 0
    <3>1. credit * Pays(price) = 0
      BY <1>4, <2>3
    <3> QED
      BY <1>0, <3>1, AtRatioOfZero
  <2> QED
    BY <1>3, <2>2, <2>3, <2>4 DEF settling
<1>6. CASE \E k, j \in DOMAIN log : SettledAt(k, j)
  <2>1. PICK k \in DOMAIN log, j \in DOMAIN log : SettledAt(k, j)
    BY <1>6
  <2> DEFINE d == log[k].delta
  <2>2. \A i \in 1..n : i # k => settling[i] = 0
    BY <1>1, <2>1, OneSettles DEF SettledCash, SettledCredit, SettledDebt
  <2>3. d \in Int
    <3>1. log[k] \in Entries /\ log[k].ev = "balance"
      BY <1>0, <1>1, <2>1, LogParts DEF SettledAt
    <3> QED
      BY <3>1, EntryParts
  <2>4. settling[k] = SettledCredit(log[k], source) - SettledDebt(log[k], source)
    BY DEF SettledCash
  <2>5. Settles(log[k], source)
    BY <2>1, OneSettles
  <2> HIDE DEF settling, n
  <2>6. TotalOf(settling) = settling[k]
    BY <1>1, <1>2, <2>2, TotalOfOne
  <2>7. /\ credit = (IF d < 0 THEN -d ELSE 0)
        /\ earned - unpaid = CashTotal - Debt(d)
    BY <2>1 DEF SettledAt
  <2>8. SettledDebt(log[k], source) = Debt(d) /\ Debt(d) \in Int
    BY <1>4, <2>3, <2>5 DEF SettledDebt, Debt
  <2>9. SettledCredit(log[k], source) = AtRatio(credit * Pays(price))
    <3>1. CASE d < 0
      <4>1. -d * Pays(price) = credit * Pays(price)
        BY <1>4, <2>3, <2>7, <3>1
      <4> QED
        BY <2>5, <3>1, <4>1 DEF SettledCredit
    <3>2. CASE ~(d < 0)
      <4>1. credit * Pays(price) = 0
        BY <1>4, <2>7, <3>2
      <4> QED
        BY <1>0, <2>5, <3>2, <4>1, AtRatioOfZero DEF SettledCredit
    <3> QED
      BY <3>1, <3>2
  <2>10. AtRatio(credit * Pays(price)) \in Int
    <3>1. credit * Pays(price) \in Int
      BY <1>0, <1>4 DEF HistoryTypes
    <3> QED
      BY <1>4, <3>1
  <2> HIDE DEF d
  <2>11. CashTotal + TotalOf(settling) = earned - unpaid + AtRatio(credit * Pays(price))
    <3>1. earned \in Int /\ unpaid \in Int
      BY <1>0 DEF HistoryTypes
    <3> QED
      BY <1>3, <2>4, <2>6, <2>7, <2>8, <2>9, <2>10, <3>1
  <2> QED
    BY <2>11 DEF settling
<1> QED
  BY <1>5, <1>6 DEF HistoryInv, SettledOnce

LEMMA KeptTypes ==
  ASSUME HistoryTypes
  PROVE  Kept \in Costs
<1>1. Fills("logs") \in [1..Len(log) -> FillSet] /\ Len(log) \in Nat
  BY LogParts, FillTells DEF Fills
<1> QED
  BY <1>1, AverageRuns DEF Kept

\* Whatever the fills: as long as all that left was there, average cost leaves of
\* their cash what is held.
Tells(own, fills, n) ==
  \A i \in 1..n : own[i] = IF fills[i].kind = "in" THEN 0 - fills[i].cash ELSE fills[i].cash

LEMMA AverageAdds ==
  ASSUME NEW n \in Nat, NEW fills \in [1..n -> FillSet], NEW own \in [1..n -> Int], Tells(own, fills, n)
  PROVE  /\ AverageCost(fills) \in Costs
         /\ AverageCost(fills).unknown = 0 =>
              AverageCost(fills).realized - AverageCost(fills).cost = TotalOf(own)
<1>1. PICK v \in [0..n -> Costs] : /\ v[0] = NoCost /\ \A k \in 1..n : v[k] = Averaged(v[k - 1], fills[k])
                                   /\ AverageCost(fills) = v[n]
  BY AverageRuns
<1>2. PICK s \in [0..n -> Int] : /\ s[0] = 0 /\ \A k \in 1..n : s[k] = s[k - 1] + own[k]
                                 /\ TotalOf(own) = s[n]
  BY TotalRuns
<1> DEFINE Right(k) == /\ v[k].qty = 0 => v[k].cost = 0
                       /\ v[k].unknown = 0 => v[k].realized - v[k].cost = s[k]
           Wrong == {k \in 0..n : ~Right(k)}
<1>3. Right(0)
  BY <1>1, <1>2 DEF NoCost
<1>4. ASSUME NEW m \in Wrong, \A q \in Wrong : m <= q PROVE FALSE
  <2>1. m \in 1..n /\ m - 1 \in 0..n /\ ~Right(m)
    BY <1>3
  <2>2. Right(m - 1)
    BY <1>4, <2>1
  <2>3. PICK c \in Costs : c = v[m - 1]
    BY <2>1
  <2>4. PICK f \in FillSet : f = fills[m]
    BY <2>1
  <2>5. v[m] = Averaged(c, f) /\ s[m] = s[m - 1] + own[m] /\ s[m - 1] \in Int /\ own[m] \in Int
    BY <1>1, <1>2, <2>1, <2>3, <2>4
  <2>6. own[m] = IF f.kind = "in" THEN 0 - f.cash ELSE f.cash
    BY <2>1, <2>4 DEF Tells
  <2>7. c.qty = 0 => c.cost = 0
    BY <2>2, <2>3
  <2>8. /\ v[m].qty = 0 => v[m].cost = 0
        /\ v[m].unknown = 0 =>
             c.unknown = 0 /\ v[m].realized - v[m].cost = c.realized - c.cost + own[m]
    BY <2>5, <2>6, <2>7, FillMoves
  <2>9. c.unknown = 0 => c.realized - c.cost = s[m - 1]
    BY <2>2, <2>3
  <2> HIDE DEF Wrong
  <2>10. Right(m)
    BY <2>5, <2>8, <2>9
  <2> QED
    BY <2>1, <2>10
<1>5. Wrong = {}
  <2>1. Wrong \in SUBSET Nat
    OBVIOUS
  <2> HIDE DEF Wrong
  <2> QED BY <1>4, <2>1, LeastCount
<1>6. Right(n)
  BY <1>5
<1>7. v[n] \in Costs
  OBVIOUS
<1> QED
  BY <1>1, <1>2, <1>6, <1>7

LEMMA SourceAverages ==
  ASSUME HistoryTypes, NEW source
  PROVE  /\ AverageCost(Fills(source)) \in Costs
         /\ AverageCost(Fills(source)).unknown = 0 =>
              AverageCost(Fills(source)).realized - AverageCost(Fills(source)).cost = OwnTotal
<1> DEFINE n == Len(log)
           fills == Fills(source)
           own == [i \in DOMAIN log |-> OwnCash(log[i])]
<1>1. n \in Nat /\ DOMAIN log = 1..n /\ \A i \in 1..n : log[i] \in Entries
  BY LogParts
<1>2. \A i \in 1..n : /\ FillOf(log[i], source) \in FillSet
                      /\ OwnCash(log[i]) = (IF FillOf(log[i], source).kind = "in"
                                            THEN 0 - FillOf(log[i], source).cash
                                            ELSE FillOf(log[i], source).cash)
                      /\ OwnCash(log[i]) \in Int
  BY <1>1, FillTells, CashTypes
<1>3. fills \in [1..n -> FillSet] /\ own \in [1..n -> Int]
  BY <1>1, <1>2 DEF Fills
<1>4. Tells(own, fills, n)
  BY <1>1, <1>2 DEF Tells, Fills
<1>5. OwnTotal = TotalOf(own)
  BY DEF OwnTotal
<1> HIDE DEF fills, own, n
<1>6. /\ AverageCost(fills) \in Costs
      /\ AverageCost(fills).unknown = 0 =>
           AverageCost(fills).realized - AverageCost(fills).cost = TotalOf(own)
  BY <1>1, <1>3, <1>4, AverageAdds
<1> QED
  BY <1>5, <1>6 DEF fills

\* The three numbers of the P&L card are right where the invariant holds.
LEMMA CardRight ==
  ASSUME HistoryInv
  PROVE  ProfitExact
<1>0. HistoryTypes /\ AccountQty = account /\ KeptSound
  BY DEF HistoryInv
<1>00. ASSUME NEW source \in Sources
       PROVE  LET r == TradePnl(source) IN
              /\ Told(source) => r.value + r.received - r.paid =
                   ValueOf(wallet, account) + earned - unpaid + AtRatio(credit * Pays(price))
              /\ ~r.approximate => r.received - r.paid - r.realized = -r.costHeld
              /\ Told(source) /\ r.closed /\ ~r.approximate /\ ~astray => r.costHeld = 0
  <2> DEFINE r == TradePnl(source)
             avg == AverageCost(Fills(source))
             value == ValueOf(wallet, account)
  <2>1. /\ r.paid = Paid(source) /\ r.received = Received(source) /\ r.value = value
        /\ r.realized = avg.realized + OtherRealized(source) /\ r.costHeld = avg.cost
        /\ (r.closed <=> wallet = 0 /\ account = 0)
        /\ (~r.approximate => ~(avg.unknown > 0))
    BY <1>0 DEF TradePnl
  <2>2. avg \in Costs /\ (avg.unknown = 0 => avg.realized - avg.cost = OwnTotal)
    BY <1>0, SourceAverages
  <2>3. value \in Int
    <3>0. wallet \in Int /\ account \in Int
      BY <1>0 DEF HistoryTypes
    <3>1. Pays(price) \in Int /\ \A x \in Int : AtRatio(x) \in Int
      BY <1>0, PaysTypes
    <3> DEFINE up == IF account > 0 THEN account ELSE 0
               down == IF account < 0 THEN account ELSE 0
    <3>2. up \in Int /\ down \in Int
      BY <3>0
    <3>3. value = IF state = "final" THEN AtRatio((wallet + up) * Pays(price)) + down * Pays(price)
                  ELSE (wallet + account) * FairValue
      BY DEF ValueOf
    <3> HIDE DEF up, down
    <3>4. (wallet + up) * Pays(price) \in Int /\ down * Pays(price) \in Int
      BY <3>0, <3>1, <3>2
    <3>5. (wallet + account) * FairValue \in Int
      BY <3>0 DEF FairValue, Unit
    <3> HIDE DEF value
    <3>6. AtRatio((wallet + up) * Pays(price)) \in Int
      BY <3>1, <3>4
    <3> QED
      BY <3>3, <3>4, <3>5, <3>6
  <2>4. /\ Received(source) \in Int /\ Paid(source) \in Int /\ OtherRealized(source) \in Int /\ OwnTotal \in Int
        /\ Received(source) - Paid(source) - OtherRealized(source) = OwnTotal
    BY CashCounted
  <2>41. Told(source) =>
           Received(source) - Paid(source) = earned - unpaid + AtRatio(credit * Pays(price))
    <3> SUFFICES ASSUME Told(source)
                 PROVE  Received(source) - Paid(source) = earned - unpaid + AtRatio(credit * Pays(price))
      OBVIOUS
    <3>1. Received(source) - Paid(source) =
            CashTotal + TotalOf([i \in DOMAIN log |-> SettledCash(log[i], source)])
      BY CashCounted
    <3>2. CashTotal + TotalOf([i \in DOMAIN log |-> SettledCash(log[i], source)]) =
            earned - unpaid + AtRatio(credit * Pays(price))
      BY SettlementCounted
    <3> QED
      BY <3>1, <3>2
  <2>5. earned \in Int /\ unpaid \in Int /\ AtRatio(credit * Pays(price)) \in Int
    <3>1. /\ Pays(price) \in Int /\ (\A x \in Int : AtRatio(x) \in Int)
          /\ credit \in Int /\ earned \in Int /\ unpaid \in Int
      BY <1>0, PaysTypes DEF HistoryTypes
    <3>2. credit * Pays(price) \in Int
      BY <3>1
    <3> QED
      BY <3>1, <3>2
  <2>6. Told(source) => avg = Kept
    BY FillsAgree DEF Kept
  <2> HIDE DEF r, value, avg
  <2>7. Told(source) => r.value + r.received - r.paid = value + earned - unpaid + AtRatio(credit * Pays(price))
    BY <2>1, <2>3, <2>4, <2>41, <2>5
  <2>8. avg.realized \in Int /\ avg.cost \in Int /\ avg.unknown \in Nat /\ avg.qty \in Nat
    BY <2>2 DEF Costs
  <2>9. ~r.approximate => avg.unknown = 0
    BY <2>1, <2>8
  <2>10. ASSUME ~r.approximate PROVE r.received - r.paid - r.realized = -r.costHeld
    <3>1. avg.realized - avg.cost = OwnTotal
      BY <2>2, <2>9, <2>10
    <3> QED
      BY <2>1, <2>4, <2>8, <3>1
  <2>11. ASSUME Told(source), r.closed, ~r.approximate, ~astray PROVE r.costHeld = 0
    <3>1. wallet = 0 /\ Kept = avg
      BY <2>1, <2>6, <2>11
    <3>2. avg.qty <= wallet
      BY <1>0, <2>9, <2>11, <3>1 DEF KeptSound
    <3>3. avg.qty = 0
      BY <2>8, <3>1, <3>2
    <3> QED
      BY <1>0, <2>1, <3>1, <3>3 DEF KeptSound
  <2> QED
    BY <2>7, <2>10, <2>11 DEF r, value
<1>9. TotalIsEarned
  BY <1>00 DEF TotalIsEarned
<1>10. OpenPartIsHeldAgainstCost
  BY <1>00 DEF OpenPartIsHeldAgainstCost
<1>11. ClosedIsRealized
  BY <1>00 DEF ClosedIsRealized
<1> QED
  BY <1>9, <1>10, <1>11 DEF ProfitExact

\* What FillOf makes of a log that closes q options of a short.
FillWith(e, q) ==
  CASE e.ev = "buy" -> [kind |-> "in", qty |-> e.qty, cash |-> e.premium + e.fee]
    [] e.ev = "mint" /\ e.own -> [kind |-> "in", qty |-> e.qty, cash |-> e.fee]
    [] e.ev = "sell" -> [kind |-> "out", qty |-> e.qty, cash |-> e.premium]
    [] e.ev = "redeem" -> [kind |-> "out", qty |-> e.qty, cash |-> e.payout]
    [] q > 0 -> [kind |-> "out", qty |-> q, cash |-> 0]
    [] OTHER -> NoFill

\* What one fill leaves of n options.
LeftBy(n, f) == IF f.kind = "in" THEN n + f.qty ELSE n - f.qty

LEMMA TotalTwo ==
  ASSUME NEW n \in Nat, NEW xs \in [1..n -> Int], NEW ys \in [1..(n + 2) -> Int],
         \A i \in 1..n : ys[i] = xs[i]
  PROVE  TotalOf(ys) = TotalOf(xs) + ys[n + 1] + ys[n + 2]
<1> DEFINE m == n + 1
           zs == [i \in 1..m |-> ys[i]]
<1>1. zs \in [1..(n + 1) -> Int] /\ (\A i \in 1..n : zs[i] = xs[i]) /\ zs[n + 1] = ys[n + 1]
  OBVIOUS
<1>2. TotalOf(zs) = TotalOf(xs) + ys[n + 1]
  <2> HIDE DEF zs
  <2> QED BY <1>1, TotalExtended
<1>3. m \in Nat /\ zs \in [1..m -> Int] /\ ys \in [1..(m + 1) -> Int] /\ (\A i \in 1..m : ys[i] = zs[i])
      /\ m + 1 = n + 2
  <2>1. m + 1 = n + 2 /\ m \in Nat
    OBVIOUS
  <2> QED BY <2>1
<1>4. TotalOf(ys) = TotalOf(zs) + ys[m + 1]
  <2> HIDE DEF zs, m
  <2> QED BY <1>3, TotalExtended
<1>5. TotalOf(xs) \in Int /\ ys[n + 1] \in Int /\ ys[n + 2] \in Int
  BY TotalInt
<1> HIDE DEF zs
<1> QED
  BY <1>2, <1>3, <1>4, <1>5

LEMMA AverageTwo ==
  ASSUME NEW n \in Nat, NEW xs \in [1..n -> FillSet], NEW ys \in [1..(n + 2) -> FillSet],
         \A i \in 1..n : ys[i] = xs[i]
  PROVE  /\ AverageCost(xs) \in Costs
         /\ AverageCost(ys) = Averaged(Averaged(AverageCost(xs), ys[n + 1]), ys[n + 2])
<1> DEFINE m == n + 1
           zs == [i \in 1..m |-> ys[i]]
<1>1. zs \in [1..(n + 1) -> FillSet] /\ (\A i \in 1..n : zs[i] = xs[i]) /\ zs[n + 1] = ys[n + 1]
  OBVIOUS
<1>2. AverageCost(xs) \in Costs /\ AverageCost(zs) = Averaged(AverageCost(xs), ys[n + 1])
  <2> HIDE DEF zs
  <2> QED BY <1>1, AverageExtended
<1>3. m \in Nat /\ zs \in [1..m -> FillSet] /\ ys \in [1..(m + 1) -> FillSet] /\ (\A i \in 1..m : ys[i] = zs[i])
      /\ m + 1 = n + 2
  <2>1. m + 1 = n + 2 /\ m \in Nat
    OBVIOUS
  <2> QED BY <2>1
<1>4. AverageCost(ys) = Averaged(AverageCost(zs), ys[m + 1])
  <2> HIDE DEF zs, m
  <2> QED BY <1>3, AverageExtended
<1> HIDE DEF zs
<1> QED
  BY <1>2, <1>3, <1>4

LEMMA FillWithTells ==
  ASSUME NEW e \in Entries, NEW q \in Int, e.ev # "balance" => q = 0
  PROVE  LET f == FillWith(e, q) IN
         /\ f \in FillSet
         /\ OwnCash(e) = (IF f.kind = "in" THEN 0 - f.cash ELSE f.cash)
<1> DEFINE f == FillWith(e, q)
<1>1. CASE e.ev = "buy"
  <2>1. f = [kind |-> "in", qty |-> 1, cash |-> e.premium + e.fee]
    BY <1>1, EntryParts DEF FillWith
  <2>2. OwnCash(e) = -(e.premium + e.fee)
    BY <1>1 DEF OwnCash, CashOf, Cost
  <2> QED
    BY <1>1, <2>1, <2>2, EntryParts DEF FillSet
<1>2. CASE e.ev = "mint" /\ e.own
  <2>1. f = [kind |-> "in", qty |-> 1, cash |-> e.fee]
    BY <1>2, EntryParts DEF FillWith
  <2>2. OwnCash(e) = -e.fee
    BY <1>2 DEF OwnCash, CashOf
  <2> QED
    BY <1>2, <2>1, <2>2, EntryParts DEF FillSet
<1>3. CASE e.ev = "sell"
  <2>1. f = [kind |-> "out", qty |-> e.qty, cash |-> e.premium]
    BY <1>3, EntryParts DEF FillWith
  <2>2. OwnCash(e) = e.premium
    BY <1>3 DEF OwnCash, CashOf
  <2> QED
    BY <1>3, <2>1, <2>2, EntryParts DEF FillSet
<1>4. CASE e.ev = "redeem"
  <2>1. f = [kind |-> "out", qty |-> e.qty, cash |-> e.payout]
    BY <1>4, EntryParts DEF FillWith
  <2>2. OwnCash(e) = e.payout
    BY <1>4 DEF OwnCash, CashOf
  <2> QED
    BY <1>4, <2>1, <2>2, EntryParts DEF FillSet
<1>5. CASE e.ev = "balance"
  <2>0. OwnCash(e) = 0
    BY <1>5 DEF OwnCash, CashOf
  <2>1. CASE q > 0
    <3>1. f = [kind |-> "out", qty |-> q, cash |-> 0]
      BY <1>5, <2>1 DEF FillWith
    <3> QED
      BY <1>5, <2>0, <2>1, <3>1 DEF FillSet
  <2>2. CASE ~(q > 0)
    <3>1. f = NoFill
      BY <1>5, <2>2 DEF FillWith
    <3> QED
      BY <2>0, <3>1, NoFillFacts
  <2> QED
    BY <2>1, <2>2
<1>6. CASE (e.ev = "mint" /\ ~e.own) \/ e.ev \in {"liquidation", "settled"}
  <2>0. OwnCash(e) = 0
    BY <1>6 DEF OwnCash, CashOf
  <2>1. f = NoFill
    BY <1>6 DEF FillWith
  <2> QED
    BY <2>0, <2>1, NoFillFacts
<1> QED
  BY <1>1, <1>2, <1>3, <1>4, <1>5, <1>6, EntryParts

\* The fill of a log is one of these, before and after a step.
LEMMA FillIs ==
  ASSUME NEW e \in Entries
  PROVE  /\ ClosedQty(e, "logs") \in Int /\ (e.ev # "balance" => ClosedQty(e, "logs") = 0)
         /\ FillOf(e, "logs") = FillWith(e, ClosedQty(e, "logs"))
         /\ ClosedQty(e, "logs")' \in Int /\ (e.ev # "balance" => ClosedQty(e, "logs")' = 0)
         /\ FillOf(e, "logs")' = FillWith(e, ClosedQty(e, "logs")')
<1>1. ClosedQty(e, "logs") \in Int /\ (e.ev # "balance" => ClosedQty(e, "logs") = 0)
  BY EntryParts DEF ClosedQty
<1>2. ClosedQty(e, "logs")' \in Int /\ (e.ev # "balance" => ClosedQty(e, "logs")' = 0)
  BY EntryParts DEF ClosedQty
<1>3. FillOf(e, "logs") = FillWith(e, ClosedQty(e, "logs"))
  BY DEF FillOf, FillWith
<1>4. FillOf(e, "logs")' = FillWith(e, ClosedQty(e, "logs")')
  BY DEF FillOf, FillWith
<1> QED
  BY <1>1, <1>2, <1>3, <1>4

Stamped(e) == e \in Entries /\ e.at = Now

Longer(n) ==
  /\ log' \in Seq(Entries) /\ Len(log') = n /\ DOMAIN log' = 1..n
  /\ \A i \in DOMAIN log : log'[i] = log[i] /\ i \in DOMAIN log'

LEMMA OneLonger ==
  ASSUME HistoryTypes, NEW e \in Entries, log' = log \o <<e>>
  PROVE  Longer(Len(log) + 1) /\ log'[Len(log) + 1] = e
  BY LogParts DEF HistoryTypes, Longer

LEMMA TwoLonger ==
  ASSUME HistoryTypes, NEW e \in Entries, NEW f \in Entries, log' = log \o <<e, f>>
  PROVE  Longer(Len(log) + 2) /\ log'[Len(log) + 1] = e /\ log'[Len(log) + 2] = f
  BY LogParts DEF HistoryTypes, Longer

\* New logs, of a new transaction, leave the fills of the old ones alone.
LEMMA OldFillsStay ==
  ASSUME HistoryTypes, StampsFit, NEW n \in Nat, Longer(n),
         \A j \in DOMAIN log' : j \notin DOMAIN log => log'[j].at.tx = tx + 1,
         NEW e \in Entries, e.at.tx <= tx
  PROVE  FillOf(e, "logs")' = FillOf(e, "logs")
<1>1. e.at.tx \in Nat /\ tx \in Nat
  BY EntryParts DEF HistoryTypes
<1>2. Settles(e, "logs")' <=> Settles(e, "logs")
  <2>1. ASSUME NEW j \in DOMAIN log', log'[j].ev = "settled", log'[j].at.tx = e.at.tx
        PROVE  j \in DOMAIN log
    BY <1>1, <2>1
  <2>2. \A j \in DOMAIN log : log'[j] = log[j] /\ j \in DOMAIN log'
    BY DEF Longer
  <2> QED
    BY <2>1, <2>2 DEF Settles, Beside, KeyOf
<1>3. ClosedQty(e, "logs")' = ClosedQty(e, "logs")
  BY <1>2 DEF ClosedQty
<1> QED
  BY <1>3, FillIs

\* The sequences that the totals and the average run over, before and after a step.
LEMMA RunsOfLog ==
  ASSUME HistoryTypes
  PROVE  /\ Len(log) \in Nat
         /\ [i \in DOMAIN log |-> CashOf(log[i])] \in [1..Len(log) -> Int]
         /\ [i \in DOMAIN log |-> OwnCash(log[i])] \in [1..Len(log) -> Int]
         /\ Fills("logs") \in [1..Len(log) -> FillSet]
<1>1. Len(log) \in Nat /\ DOMAIN log = 1..Len(log) /\ \A i \in 1..Len(log) : log[i] \in Entries
  BY LogParts
<1>2. \A i \in 1..Len(log) : FillOf(log[i], "logs") \in FillSet
  BY <1>1, FillIs, FillWithTells
<1> QED
  BY <1>1, <1>2, CashTypes DEF Fills

LEMMA RunsOfLonger ==
  ASSUME NEW n \in Nat, Longer(n)
  PROVE  /\ [i \in DOMAIN log' |-> CashOf(log'[i])] \in [1..n -> Int]
         /\ [i \in DOMAIN log' |-> OwnCash(log'[i])] \in [1..n -> Int]
         /\ Fills("logs")' \in [1..n -> FillSet]
         /\ \A i \in 1..n : \A e \in Entries : log'[i] = e => Fills("logs")'[i] = FillOf(e, "logs")'
<1>1. DOMAIN log' = 1..n /\ \A i \in 1..n : log'[i] \in Entries
  BY DEF Longer
<1>2. Fills("logs")' = [i \in 1..n |-> FillOf(log[i], "logs")']
  BY <1>1 DEF Fills
<1>3. \A i \in 1..n : \A e \in Entries : log'[i] = e => FillOf(log[i], "logs")' = FillOf(e, "logs")'
  BY DEF FillOf, ClosedQty, Settles, Beside, KeyOf
<1>4. \A i \in 1..n : FillOf(log[i], "logs")' \in FillSet
  <2> SUFFICES ASSUME NEW i \in 1..n, NEW e \in Entries, log'[i] = e PROVE FillOf(log[i], "logs")' \in FillSet
    BY <1>1
  <2> QED
    BY <1>3, FillIs, FillWithTells
<1>5. \A i \in 1..n : Fills("logs")'[i] = FillOf(log[i], "logs")'
  BY <1>2
<1>6. Fills("logs")' \in [1..n -> FillSet]
  BY <1>2, <1>4
<1> QED
  BY <1>1, <1>3, <1>5, <1>6, CashTypes

LEMMA OldStamps ==
  ASSUME HistoryTypes, StampsFit, NEW i \in DOMAIN log
  PROVE  log[i] \in Entries /\ log[i].at.tx \in Nat /\ log[i].at.tx <= tx
<1>1. log[i] \in Entries
  BY LogParts
<1>2. log[i].at.tx <= tx
  BY DEF StampsFit
<1> QED
  BY <1>1, <1>2, EntryParts

\* The logs of a transaction are of the next number and of one block.
LEMMA StampsStay ==
  ASSUME HistoryTypes, StampsFit, tx' = tx + 1, NEW n \in Nat, Longer(n),
         \A j \in DOMAIN log' : j \notin DOMAIN log => log'[j].at = Now
  PROVE  StampsFit'
<1>1. \A i \in DOMAIN log : log[i].at.tx \in Nat /\ log[i].at.tx <= tx /\ log'[i] = log[i]
  BY OldStamps DEF Longer
<1>2. \A i \in DOMAIN log' : i \notin DOMAIN log => log'[i].at = Now /\ log'[i].at.tx = tx + 1
  BY DEF Now
<1>3. tx \in Nat
  BY DEF HistoryTypes
<1>4. \A i \in DOMAIN log' : log'[i].at.tx <= tx + 1
  BY <1>1, <1>2, <1>3
<1>5. ASSUME NEW i \in DOMAIN log', NEW j \in DOMAIN log', log'[i].at.tx = log'[j].at.tx
      PROVE  log'[i].at = log'[j].at
  <2>1. CASE i \in DOMAIN log /\ j \in DOMAIN log
    BY <1>1, <1>5, <2>1 DEF StampsFit
  <2>2. CASE i \notin DOMAIN log /\ j \notin DOMAIN log
    BY <1>2, <2>2
  <2>3. CASE i \in DOMAIN log /\ j \notin DOMAIN log
    BY <1>1, <1>2, <1>3, <1>5, <2>3
  <2>4. CASE i \notin DOMAIN log /\ j \in DOMAIN log
    BY <1>1, <1>2, <1>3, <1>5, <2>4
  <2> QED
    BY <2>1, <2>2, <2>3, <2>4
<1> QED
  BY <1>4, <1>5 DEF StampsFit

KeptMoves(q) ==
  /\ Kept'.qty = 0 => Kept'.cost = 0
  /\ Kept'.unknown = 0 => /\ Kept.unknown = 0
                          /\ Kept'.realized - Kept'.cost = OwnTotal'
                          /\ Kept'.qty = q

\* One log more.
LEMMA OneTold ==
  ASSUME HistoryTypes, StampsFit, KeptSound, tx' = tx + 1,
         NEW e \in Entries, e.at = Now, log' = log \o <<e>>
  PROVE  /\ Longer(Len(log) + 1) /\ log'[Len(log) + 1] = e /\ StampsFit'
         /\ CashTotal' = CashTotal + CashOf(e)
         /\ KeptMoves(LeftBy(Kept.qty, FillOf(e, "logs")'))
<1> DEFINE n == Len(log)
           flow == [i \in DOMAIN log |-> CashOf(log[i])]
           own == [i \in DOMAIN log |-> OwnCash(log[i])]
           fills == Fills("logs")
           cash2 == [i \in DOMAIN log' |-> CashOf(log'[i])]
           own2 == [i \in DOMAIN log' |-> OwnCash(log'[i])]
           fills2 == Fills("logs")'
           f == FillOf(e, "logs")'
<1>1. Longer(n + 1) /\ log'[n + 1] = e /\ n \in Nat /\ DOMAIN log = 1..n /\ \A i \in 1..n : log[i] \in Entries
  BY OneLonger, LogParts
<1>0. n + 1 \in Nat /\ n + 1 \in 1..(n + 1) /\ \A i \in 1..n : i \in 1..(n + 1)
  BY <1>1
<1>2. \A j \in DOMAIN log' : j \notin DOMAIN log => log'[j] = e
  BY <1>1 DEF Longer
<1>3. StampsFit'
  BY <1>1, <1>2, StampsStay
<1>4. \A i \in 1..n : cash2[i] = flow[i] /\ own2[i] = own[i]
  BY <1>1 DEF Longer
<1>5. cash2[n + 1] = CashOf(e) /\ own2[n + 1] = OwnCash(e)
  BY <1>1 DEF Longer
<1>6. \A i \in 1..n : fills2[i] = fills[i]
  <2> SUFFICES ASSUME NEW i \in 1..n, NEW x \in Entries, log[i] = x PROVE fills2[i] = fills[i]
    BY <1>1
  <2>1. \A j \in DOMAIN log' : j \notin DOMAIN log => log'[j].at.tx = tx + 1
    BY <1>2 DEF Now
  <2>2. x.at.tx <= tx
    BY <1>1, OldStamps
  <2>3. FillOf(x, "logs")' = FillOf(x, "logs")
    BY <1>0, <1>1, <2>1, <2>2, OldFillsStay
  <2>4. fills2[i] = FillOf(x, "logs")'
    BY <1>1, <1>0, RunsOfLonger DEF Longer
  <2>5. fills[i] = FillOf(x, "logs")
    BY <1>1 DEF Fills
  <2> QED
    BY <2>3, <2>4, <2>5
<1>7. fills2[n + 1] = f /\ f \in FillSet /\ OwnCash(e) = (IF f.kind = "in" THEN 0 - f.cash ELSE f.cash)
  <2>1. fills2[n + 1] = f
    BY <1>1, <1>0, RunsOfLonger
  <2> QED
    BY <2>1, FillIs, FillWithTells
<1>8. flow \in [1..n -> Int] /\ own \in [1..n -> Int] /\ fills \in [1..n -> FillSet]
  BY RunsOfLog
<1>9. cash2 \in [1..(n + 1) -> Int] /\ own2 \in [1..(n + 1) -> Int] /\ fills2 \in [1..(n + 1) -> FillSet]
  BY <1>1, RunsOfLonger
<1>10. CashTotal = TotalOf(flow) /\ OwnTotal = TotalOf(own) /\ Kept = AverageCost(fills)
  BY DEF CashTotal, OwnTotal, Kept
<1>11. CashTotal' = TotalOf(cash2) /\ OwnTotal' = TotalOf(own2) /\ Kept' = AverageCost(fills2)
  BY DEF CashTotal, OwnTotal, Kept
<1> HIDE DEF flow, own, fills, cash2, own2, fills2, f, n
<1>12. TotalOf(cash2) = TotalOf(flow) + CashOf(e)
  <2>1. n \in Nat /\ flow \in [1..n -> Int] /\ cash2 \in [1..(n + 1) -> Int] /\ \A i \in 1..n : cash2[i] = flow[i]
    BY <1>1, <1>4, <1>8, <1>9
  <2> QED
    BY <2>1, <1>5, TotalExtended
<1>13. TotalOf(own2) = TotalOf(own) + OwnCash(e) /\ TotalOf(own) \in Int
  <2>1. n \in Nat /\ own \in [1..n -> Int] /\ own2 \in [1..(n + 1) -> Int] /\ \A i \in 1..n : own2[i] = own[i]
    BY <1>1, <1>4, <1>8, <1>9
  <2> QED
    BY <2>1, <1>5, TotalExtended, TotalInt
<1>14. AverageCost(fills) \in Costs /\ AverageCost(fills2) = Averaged(AverageCost(fills), f)
  BY <1>1, <1>6, <1>7, <1>8, <1>9, AverageExtended
<1>15. Kept' = Averaged(Kept, f) /\ Kept \in Costs /\ OwnTotal' = OwnTotal + OwnCash(e) /\ OwnTotal \in Int
  BY <1>10, <1>11, <1>13, <1>14
<1>16. KeptMoves(LeftBy(Kept.qty, f))
  <2>1. Kept' \in Costs
    BY <1>7, <1>15, CostsStay
  <2>2. /\ Kept'.qty = 0 => Kept'.cost = 0
        /\ Kept'.unknown = 0 =>
              /\ Kept.unknown = 0
              /\ Kept'.realized - Kept'.cost = Kept.realized - Kept.cost + OwnCash(e)
              /\ Kept'.qty = LeftBy(Kept.qty, f)
    <3>1. Kept.qty = 0 => Kept.cost = 0
      BY DEF KeptSound
    <3> QED
      BY <1>7, <1>15, <3>1, FillMoves DEF LeftBy
  <2>3. Kept.unknown = 0 => Kept.realized - Kept.cost = OwnTotal
    BY DEF KeptSound
  <2> QED
    BY <1>15, <2>2, <2>3 DEF KeptMoves
<1> QED
  BY <1>1, <1>3, <1>10, <1>11, <1>12, <1>16 DEF n, f

\* Two logs more.
LEMMA TwoTold ==
  ASSUME HistoryTypes, StampsFit, KeptSound, tx' = tx + 1,
         NEW e \in Entries, e.at = Now,
         NEW g \in Entries, g.at = Now, log' = log \o <<e, g>>
  PROVE  /\ Longer(Len(log) + 2) /\ log'[Len(log) + 1] = e /\ log'[Len(log) + 2] = g /\ StampsFit'
         /\ CashTotal' = CashTotal + CashOf(e) + CashOf(g)
         /\ KeptMoves(LeftBy(LeftBy(Kept.qty, FillOf(e, "logs")'), FillOf(g, "logs")'))
<1> DEFINE n == Len(log)
           flow == [i \in DOMAIN log |-> CashOf(log[i])]
           own == [i \in DOMAIN log |-> OwnCash(log[i])]
           fills == Fills("logs")
           cash2 == [i \in DOMAIN log' |-> CashOf(log'[i])]
           own2 == [i \in DOMAIN log' |-> OwnCash(log'[i])]
           fills2 == Fills("logs")'
           f == FillOf(e, "logs")'
           h == FillOf(g, "logs")'
<1>1. Longer(n + 2) /\ log'[n + 1] = e /\ log'[n + 2] = g /\ n \in Nat /\ DOMAIN log = 1..n /\ \A i \in 1..n : log[i] \in Entries
  BY TwoLonger, LogParts
<1>0. n + 2 \in Nat /\ n + 1 \in 1..(n + 2) /\ n + 2 \in 1..(n + 2) /\ \A i \in 1..n : i \in 1..(n + 2)
  BY <1>1
<1>2. \A j \in DOMAIN log' : j \notin DOMAIN log => log'[j] \in {e, g}
  BY <1>1 DEF Longer
<1>3. StampsFit'
  BY <1>1, <1>2, StampsStay
<1>4. \A i \in 1..n : cash2[i] = flow[i] /\ own2[i] = own[i]
  BY <1>1 DEF Longer
<1>5. /\ cash2[n + 1] = CashOf(e) /\ own2[n + 1] = OwnCash(e)
      /\ cash2[n + 2] = CashOf(g) /\ own2[n + 2] = OwnCash(g)
  BY <1>1 DEF Longer
<1>6. \A i \in 1..n : fills2[i] = fills[i]
  <2> SUFFICES ASSUME NEW i \in 1..n, NEW x \in Entries, log[i] = x PROVE fills2[i] = fills[i]
    BY <1>1
  <2>1. \A j \in DOMAIN log' : j \notin DOMAIN log => log'[j].at.tx = tx + 1
    BY <1>2 DEF Now
  <2>2. x.at.tx <= tx
    BY <1>1, OldStamps
  <2>3. FillOf(x, "logs")' = FillOf(x, "logs")
    BY <1>0, <1>1, <2>1, <2>2, OldFillsStay
  <2>4. fills2[i] = FillOf(x, "logs")'
    BY <1>1, <1>0, RunsOfLonger DEF Longer
  <2>5. fills[i] = FillOf(x, "logs")
    BY <1>1 DEF Fills
  <2> QED
    BY <2>3, <2>4, <2>5
<1>7. fills2[n + 1] = f /\ f \in FillSet /\ OwnCash(e) = (IF f.kind = "in" THEN 0 - f.cash ELSE f.cash)
  <2>1. fills2[n + 1] = f
    BY <1>1, <1>0, RunsOfLonger
  <2> QED
    BY <2>1, FillIs, FillWithTells
<1>71. fills2[n + 2] = h /\ h \in FillSet /\ OwnCash(g) = (IF h.kind = "in" THEN 0 - h.cash ELSE h.cash)
  <2>1. fills2[n + 2] = h
    BY <1>1, <1>0, RunsOfLonger
  <2> QED
    BY <2>1, FillIs, FillWithTells
<1>8. flow \in [1..n -> Int] /\ own \in [1..n -> Int] /\ fills \in [1..n -> FillSet]
  BY RunsOfLog
<1>9. cash2 \in [1..(n + 2) -> Int] /\ own2 \in [1..(n + 2) -> Int] /\ fills2 \in [1..(n + 2) -> FillSet]
  BY <1>0, <1>1, RunsOfLonger
<1>10. CashTotal = TotalOf(flow) /\ OwnTotal = TotalOf(own) /\ Kept = AverageCost(fills)
  BY DEF CashTotal, OwnTotal, Kept
<1>11. CashTotal' = TotalOf(cash2) /\ OwnTotal' = TotalOf(own2) /\ Kept' = AverageCost(fills2)
  BY DEF CashTotal, OwnTotal, Kept
<1> HIDE DEF flow, own, fills, cash2, own2, fills2, f, h, n
<1>12. TotalOf(cash2) = TotalOf(flow) + CashOf(e) + CashOf(g)
  <2>1. n \in Nat /\ flow \in [1..n -> Int] /\ cash2 \in [1..(n + 2) -> Int] /\ \A i \in 1..n : cash2[i] = flow[i]
    BY <1>1, <1>4, <1>8, <1>9
  <2> QED
    BY <2>1, <1>5, TotalTwo
<1>13. TotalOf(own2) = TotalOf(own) + OwnCash(e) + OwnCash(g) /\ TotalOf(own) \in Int
  <2>1. n \in Nat /\ own \in [1..n -> Int] /\ own2 \in [1..(n + 2) -> Int] /\ \A i \in 1..n : own2[i] = own[i]
    BY <1>1, <1>4, <1>8, <1>9
  <2> QED
    BY <2>1, <1>5, TotalTwo, TotalInt
<1>14. /\ AverageCost(fills) \in Costs
       /\ AverageCost(fills2) = Averaged(Averaged(AverageCost(fills), f), h)
  BY <1>1, <1>6, <1>7, <1>71, <1>8, <1>9, AverageTwo
<1>15. /\ Kept' = Averaged(Averaged(Kept, f), h) /\ Kept \in Costs
       /\ OwnTotal' = OwnTotal + OwnCash(e) + OwnCash(g) /\ OwnTotal \in Int
  BY <1>10, <1>11, <1>13, <1>14
<1>16. KeptMoves(LeftBy(LeftBy(Kept.qty, f), h))
  <2> DEFINE c == Averaged(Kept, f)
  <2>1. c \in Costs /\ Kept' = Averaged(c, h)
    BY <1>7, <1>15, CostsStay
  <2>2. /\ c.qty = 0 => c.cost = 0
        /\ c.unknown = 0 =>
              /\ Kept.unknown = 0
              /\ c.realized - c.cost = Kept.realized - Kept.cost + OwnCash(e)
              /\ c.qty = LeftBy(Kept.qty, f)
    <3>1. Kept.qty = 0 => Kept.cost = 0
      BY DEF KeptSound
    <3> QED
      BY <1>7, <1>15, <3>1, FillMoves DEF LeftBy
  <2> HIDE DEF c
  <2>3. Kept' \in Costs
    BY <1>71, <2>1, CostsStay
  <2>4. /\ Kept'.qty = 0 => Kept'.cost = 0
        /\ Kept'.unknown = 0 =>
              /\ c.unknown = 0
              /\ Kept'.realized - Kept'.cost = c.realized - c.cost + OwnCash(g)
              /\ Kept'.qty = LeftBy(c.qty, h)
    BY <1>71, <2>1, <2>2, FillMoves DEF LeftBy
  <2>5. Kept.unknown = 0 => Kept.realized - Kept.cost = OwnTotal
    BY DEF KeptSound
  <2>6. OwnCash(e) \in Int /\ OwnCash(g) \in Int
    BY CashTypes
  <2> QED
    BY <1>15, <2>2, <2>4, <2>5, <2>6 DEF KeptMoves
<1> QED
  BY <1>1, <1>3, <1>10, <1>11, <1>12, <1>16 DEF n, f, h

\* The last balance of the account is the one that was told last.
LEMMA BalanceTold ==
  ASSUME NEW n \in Nat, Longer(n), NEW k \in 1..n, log'[k].ev = "balance",
         \A i \in 1..n : log'[i].ev = "balance" => i <= k
  PROVE  AccountQty' = log'[k].balance
<1> DEFINE told == {i \in DOMAIN log' : log'[i].ev = "balance"}
<1>1. DOMAIN log' = 1..n
  BY DEF Longer
<1>2. k \in told /\ told \in SUBSET (1..k) /\ k \in Nat
  BY <1>1
<1>3. AccountQty' = IF told = {} THEN 0 ELSE log'[Max(told)].balance
  BY DEF AccountQty
<1> HIDE DEF told
<1>4. Max(told) = k
  BY <1>2, LargestIs
<1> QED
  BY <1>2, <1>3, <1>4

LEMMA BalanceStays ==
  ASSUME HistoryTypes, NEW n \in Nat, Longer(n),
         \A i \in 1..n : i \notin DOMAIN log => log'[i].ev # "balance"
  PROVE  AccountQty' = AccountQty
<1> DEFINE told == {i \in DOMAIN log : log[i].ev = "balance"}
           told2 == {i \in DOMAIN log' : log'[i].ev = "balance"}
<1>1. DOMAIN log' = 1..n /\ DOMAIN log = 1..Len(log) /\ Len(log) \in Nat
  BY LogParts DEF Longer
<1>2. \A i \in DOMAIN log : log'[i] = log[i] /\ i \in DOMAIN log'
  BY DEF Longer
<1>3. told2 = told
  BY <1>1, <1>2
<1>4. AccountQty' = (IF told2 = {} THEN 0 ELSE log'[Max(told2)].balance)
  BY DEF AccountQty
<1>5. AccountQty = (IF told = {} THEN 0 ELSE log[Max(told)].balance)
  BY DEF AccountQty
<1>6. told \in SUBSET (1..Len(log))
  BY <1>1
<1>7. \A i \in told : log'[i] = log[i]
  BY <1>2
<1> HIDE DEF told, told2
<1>8. told # {} => Max(told) \in told
  BY <1>1, <1>6, MaxIn
<1> QED
  BY <1>3, <1>4, <1>5, <1>7, <1>8

LEMMA LoggedParts ==
  ASSUME HistoryTypes, NEW es, Logged(es)
  PROVE  /\ tx' = tx + 1 /\ tx' \in Nat /\ block' \in Nat /\ crowd' \in Nat /\ Now \in Stamps
         /\ log' = log \o es
<1>1. tx' = tx + 1 /\ block' \in Nat /\ crowd' \in Nat /\ log' = log \o es
  BY DEF Logged, HistoryTypes
<1>2. tx' \in Nat
  BY <1>1 DEF HistoryTypes
<1> QED
  BY <1>1, <1>2 DEF Now, Stamps

LEMMA NotSettledStays ==
  ASSUME NotSettled, NEW n \in Nat, Longer(n),
         \A i \in 1..n : i \notin DOMAIN log => log'[i].ev # "settled",
         credit' = credit, unpaid' = unpaid, earned' = CashTotal'
  PROVE  NotSettled'
<1>1. \A i \in DOMAIN log : log'[i] = log[i]
  BY DEF Longer
<1>2. DOMAIN log' = 1..n
  BY DEF Longer
<1>3. \A i \in DOMAIN log' : log'[i].ev # "settled"
  BY <1>1, <1>2 DEF NotSettled
<1> QED
  BY <1>3 DEF NotSettled

LEMMA SettledStays ==
  ASSUME NEW k \in DOMAIN log, NEW j \in DOMAIN log, SettledAt(k, j), NEW n \in Nat, Longer(n),
         \A i \in 1..n : i \notin DOMAIN log => log'[i].ev \notin {"settled", "balance"},
         credit' = credit, account' = account, state' = state, price' = price,
         earned' - unpaid' = CashTotal' - Debt(log[k].delta)
  PROVE  k \in DOMAIN log' /\ j \in DOMAIN log' /\ SettledAt(k, j)'
<1>1. \A i \in DOMAIN log : log'[i] = log[i] /\ i \in DOMAIN log'
  BY DEF Longer
<1>2. DOMAIN log' = 1..n
  BY DEF Longer
<1>3. log'[k] = log[k] /\ log'[j] = log[j]
  BY <1>1
<1>4. Debt(log[k].delta)' = Debt(log[k].delta)
  BY <1>3 DEF Debt, Pays
<1>5. \A i \in DOMAIN log' : log'[i].ev = "settled" => i = j
  BY <1>1, <1>2 DEF SettledAt
<1>6. \A i \in DOMAIN log' : log'[i].ev = "balance" /\ log'[i].at.tx = log[k].at.tx => i = k
  BY <1>1, <1>2 DEF SettledAt
<1>7. /\ log'[k].ev = "balance" /\ log'[j].ev = "settled" /\ log'[k].at = log'[j].at
      /\ account' = 0 /\ state' = "final" /\ credit' = (IF log'[k].delta < 0 THEN -log'[k].delta ELSE 0)
  BY <1>3 DEF SettledAt
<1> QED
  BY <1>1, <1>3, <1>4, <1>5, <1>6, <1>7 DEF SettledAt

\* A step that no history tells.
LEMMA Untold ==
  ASSUME UNCHANGED log
  PROVE  CashTotal' = CashTotal /\ OwnTotal' = OwnTotal /\ Kept' = Kept /\ AccountQty' = AccountQty
<1>1. Fills("logs")' = Fills("logs")
  BY DEF Fills, FillOf, ClosedQty, Settles, Beside, KeyOf
<1> QED
  BY <1>1 DEF CashTotal, OwnTotal, Kept, AccountQty

\* One log that tells no settlement.
LEMMA OneKeeps ==
  ASSUME HistoryInv, NEW e \in Entries, e.at = Now, Logged(<<e>>), e.ev # "settled",
         credit' = credit, unpaid' = unpaid, price' = price, state' = state, ratio' = ratio,
         wallet' \in Nat, account' \in Int, earned' = earned + CashOf(e),
         \/ e.ev = "balance" /\ NotSettled /\ account' = e.balance
         \/ e.ev # "balance" /\ account' = account,
         astray => astray',
         astray' \/ (\A q \in Nat : q <= wallet => LeftBy(q, FillOf(e, "logs")') <= wallet')
  PROVE  HistoryInv'
<1> DEFINE n == Len(log) + 1
<1>0. HistoryTypes /\ StampsFit /\ AccountQty = account /\ SettledOnce /\ KeptSound
  BY DEF HistoryInv
<1>1. tx' = tx + 1 /\ tx' \in Nat /\ block' \in Nat /\ crowd' \in Nat /\ log' = log \o <<e>>
  BY <1>0, LoggedParts
<1>2. /\ Longer(n) /\ log'[n] = e /\ StampsFit' /\ CashTotal' = CashTotal + CashOf(e)
      /\ KeptMoves(LeftBy(Kept.qty, FillOf(e, "logs")'))
  BY <1>0, <1>1, OneTold
<1>3. n \in Nat /\ n \in 1..n /\ DOMAIN log = 1..(n - 1)
  BY <1>0, LogParts
<1>4. \A i \in 1..n : i \notin DOMAIN log => i = n
  BY <1>3
<1>5. CashOf(e) \in Int /\ CashTotal \in Int /\ earned \in Int /\ unpaid \in Int
  BY <1>0, CashTypes, CashIsWhole DEF HistoryTypes
<1> HIDE DEF n
<1>6. HistoryTypes'
  BY <1>0, <1>1, <1>2, <1>5 DEF HistoryTypes, Longer
<1>7. AccountQty' = account'
  <2>1. CASE e.ev = "balance"
    <3>1. AccountQty' = log'[n].balance
      BY <1>2, <1>3, <2>1, BalanceTold
    <3> QED
      BY <1>2, <2>1, <3>1
  <2>2. CASE e.ev # "balance"
    <3>1. AccountQty' = AccountQty
      BY <1>0, <1>2, <1>3, <1>4, <2>2, BalanceStays
    <3> QED
      BY <1>0, <2>2, <3>1
  <2> QED
    BY <2>1, <2>2
<1>8. SettledOnce'
  <2>1. CASE NotSettled
    <3>1. earned' = CashTotal'
      BY <1>2, <2>1 DEF NotSettled
    <3>2. NotSettled'
      BY <1>2, <1>3, <1>4, <2>1, <3>1, NotSettledStays
    <3> QED
      BY <3>2 DEF SettledOnce
  <2>2. CASE e.ev # "balance" /\ \E k, j \in DOMAIN log : SettledAt(k, j)
    <3>1. PICK k \in DOMAIN log, j \in DOMAIN log : SettledAt(k, j)
      BY <2>2
    <3>2. earned - unpaid = CashTotal - Debt(log[k].delta) /\ log[k].delta \in Int
      <4>1. log[k] \in Entries
        BY <1>0, LogParts
      <4> QED
        BY <3>1, <4>1, EntryParts DEF SettledAt
    <3>3. Debt(log[k].delta) \in Int
      BY <1>0, <3>2, PaysTypes DEF Debt
    <3>4. earned' - unpaid' = CashTotal' - Debt(log[k].delta)
      BY <1>2, <1>5, <3>2, <3>3
    <3>5. account' = account
      BY <2>2
    <3>6. k \in DOMAIN log' /\ j \in DOMAIN log' /\ SettledAt(k, j)'
      BY <1>2, <1>3, <1>4, <2>2, <3>1, <3>4, <3>5, SettledStays
    <3> QED
      BY <3>6 DEF SettledOnce
  <2> QED
    BY <1>0, <2>1, <2>2 DEF SettledOnce
<1>9. KeptSound'
  <2> DEFINE q == LeftBy(Kept.qty, FillOf(e, "logs")')
  <2>1. KeptMoves(q)
    BY <1>2
  <2>2. Kept.qty \in Nat
    BY <1>0, KeptTypes DEF Costs
  <2>3. Kept.unknown = 0 => astray' \/ q <= wallet'
    BY <1>0, <2>2 DEF KeptSound
  <2> HIDE DEF q
  <2> QED
    BY <2>1, <2>3 DEF KeptSound, KeptMoves
<1> QED
  BY <1>2, <1>6, <1>7, <1>8, <1>9 DEF HistoryInv

\* A balance and beside it a log that tells no settlement.
LEMMA TwoKeep ==
  ASSUME HistoryInv, NotSettled, NEW e \in Entries, e.at = Now, NEW g \in Entries, g.at = Now, Logged(<<e, g>>),
         e.ev = "balance", g.ev \notin {"settled", "balance"},
         credit' = credit, unpaid' = unpaid, price' = price, state' = state, ratio' = ratio,
         wallet' \in Nat, account' \in Int, earned' = earned + CashOf(g), account' = e.balance,
         astray => astray',
         \A q \in Nat : q <= wallet => LeftBy(LeftBy(q, FillOf(e, "logs")'), FillOf(g, "logs")') <= wallet'
  PROVE  HistoryInv'
<1> DEFINE n == Len(log) + 2
<1>0. HistoryTypes /\ StampsFit /\ AccountQty = account /\ SettledOnce /\ KeptSound
  BY DEF HistoryInv
<1>1. tx' = tx + 1 /\ tx' \in Nat /\ block' \in Nat /\ crowd' \in Nat /\ log' = log \o <<e, g>>
  BY <1>0, LoggedParts
<1>2. /\ Longer(n) /\ log'[n - 1] = e /\ log'[n] = g /\ StampsFit' /\ CashTotal' = CashTotal + CashOf(e) + CashOf(g)
      /\ KeptMoves(LeftBy(LeftBy(Kept.qty, FillOf(e, "logs")'), FillOf(g, "logs")'))
  <2>1. n - 1 = Len(log) + 1
    BY <1>0, LogParts
  <2> QED
    BY <1>0, <1>1, <2>1, TwoTold
<1>3. n \in Nat /\ n \in 1..n /\ n - 1 \in 1..n /\ DOMAIN log = 1..(n - 2)
  BY <1>0, LogParts
<1>4. \A i \in 1..n : i \notin DOMAIN log => i = n \/ i = n - 1
  BY <1>3
<1>5. CashOf(g) \in Int /\ CashOf(e) = 0 /\ CashTotal \in Int /\ earned \in Int /\ unpaid \in Int
  BY <1>0, CashTypes, CashIsWhole DEF HistoryTypes, CashOf
<1> HIDE DEF n
<1>6. HistoryTypes'
  BY <1>0, <1>1, <1>2, <1>5 DEF HistoryTypes, Longer
<1>7. AccountQty' = account'
  <2>1. \A i \in 1..n : log'[i].ev = "balance" => i <= n - 1
    BY <1>2, <1>3
  <2>2. AccountQty' = log'[n - 1].balance
    BY <1>2, <1>3, <2>1, BalanceTold
  <2> QED
    BY <1>2, <2>2
<1>8. SettledOnce'
  <2>1. earned' = CashTotal'
    BY <1>2, <1>5 DEF NotSettled
  <2>2. NotSettled'
    BY <1>2, <1>3, <1>4, <2>1, NotSettledStays
  <2> QED
    BY <2>2 DEF SettledOnce
<1>9. KeptSound'
  <2> DEFINE q == LeftBy(LeftBy(Kept.qty, FillOf(e, "logs")'), FillOf(g, "logs")')
  <2>1. KeptMoves(q)
    BY <1>2
  <2>2. Kept.qty \in Nat
    BY <1>0, KeptTypes DEF Costs
  <2>3. Kept.unknown = 0 => astray' \/ q <= wallet'
    BY <1>0, <2>2 DEF KeptSound
  <2> HIDE DEF q
  <2> QED
    BY <2>1, <2>3 DEF KeptSound, KeptMoves
<1> QED
  BY <1>2, <1>6, <1>7, <1>8, <1>9 DEF HistoryInv

\* Before a group is settled, nothing is settled.
LEMMA OpenIsNotSettled ==
  ASSUME HistoryInv, state # "final" \/ account # 0
  PROVE  NotSettled
  BY DEF HistoryInv, SettledOnce, SettledAt

\* A balance that is no settlement's closes what its short lost.
LEMMA BalanceFill ==
  ASSUME NotSettled, NEW n \in Nat, Longer(n),
         \A i \in 1..n : i \notin DOMAIN log => log'[i].ev # "settled",
         NEW e \in Entries, e.ev = "balance"
  PROVE  FillOf(e, "logs")' = IF e.delta <= 0 \/ e.balance - e.delta >= 0 THEN NoFill
                              ELSE [kind |-> "out", cash |-> 0,
                                    qty |-> IF e.balance > 0 THEN -(e.balance - e.delta) ELSE e.delta]
<1>1. \A i \in DOMAIN log' : log'[i].ev # "settled"
  BY DEF Longer, NotSettled
<1>2. ~Settles(e, "logs")'
  BY <1>1 DEF Settles, Beside
<1>3. e.delta \in Int /\ e.balance \in Int
  BY EntryParts
<1> DEFINE before == e.balance - e.delta
           q == IF e.balance > 0 THEN -before ELSE e.delta
<1>4. CASE e.delta <= 0 \/ before >= 0
  <2>1. ClosedQty(e, "logs")' = 0
    BY <1>4 DEF ClosedQty
  <2> QED
    BY <1>4, <2>1 DEF FillOf
<1>5. CASE ~(e.delta <= 0 \/ before >= 0)
  <2>1. ClosedQty(e, "logs")' = q
    BY <1>2, <1>5 DEF ClosedQty
  <2>2. q > 0
    BY <1>3, <1>5
  <2> HIDE DEF q
  <2>3. FillOf(e, "logs")' = [kind |-> "out", qty |-> q, cash |-> 0]
    BY <2>1, <2>2 DEF FillOf
  <2> QED
    BY <1>5, <2>3 DEF q
<1> QED
  BY <1>4, <1>5

LEMMA UnmovedBy == ASSUME NEW q \in Nat PROVE LeftBy(q, NoFill) = q
  BY NoFillFacts DEF LeftBy

LEMMA BuyKeeps ==
  ASSUME HistoryInv, Buy
  PROVE  HistoryInv'
<1> DEFINE es == <<[ev |-> "buy", qty |-> 1, premium |-> Premium, fee |-> BuyerFee, at |-> Now]>>
<1>0. HistoryTypes
  BY DEF HistoryInv
<1>1. Logged(es) /\ state = "active" /\ wallet' = wallet + 1 /\ earned' = earned - Premium - BuyerFee
      /\ UNCHANGED <<account, credit, unpaid, state, price, ratio, astray>>
  BY DEF Buy
<1>2. Now \in Stamps
  BY <1>0, <1>1, LoggedParts
<1>3. Premium \in Int /\ BuyerFee \in Int
  BY DEF Premium, BuyerFee, Unit
<1>4. es[1] \in Entries /\ es = <<es[1]>>
  BY <1>2, <1>3 DEF Entries
<1>5. PICK e \in Entries : e = es[1]
  BY <1>4
<1>6. e.ev = "buy" /\ e.qty = 1 /\ e.premium = Premium /\ e.fee = BuyerFee /\ e.at = Now
  BY <1>5
<1>7. Logged(<<e>>)
  BY <1>1, <1>4, <1>5
<1> HIDE DEF es
<1>8. FillOf(e, "logs")' = [kind |-> "in", qty |-> 1, cash |-> e.premium + e.fee]
  <2>1. FillOf(e, "logs")' = FillWith(e, 0)
    BY <1>6, FillIs
  <2> QED
    BY <1>6, <2>1 DEF FillWith
<1>9. \A q \in Nat : LeftBy(q, FillOf(e, "logs")') = q + 1
  BY <1>8 DEF LeftBy
<1>10. CashOf(e) = -(Premium + BuyerFee)
  BY <1>6 DEF CashOf, Cost
<1>11. earned \in Int /\ wallet \in Nat /\ account \in Int
  BY <1>0 DEF HistoryTypes
<1>12. earned' = earned + CashOf(e)
  BY <1>1, <1>3, <1>10, <1>11
<1> QED
  BY <1>1, <1>6, <1>7, <1>9, <1>11, <1>12, OneKeeps

LEMMA SellKeeps ==
  ASSUME HistoryInv, Sell
  PROVE  HistoryInv'
<1>0. HistoryTypes
  BY DEF HistoryInv
<1>1. PICK sold \in 1..wallet :
        /\ Logged(<<[ev |-> "sell", qty |-> sold, premium |-> sold * Proceeds, at |-> Now]>>)
        /\ wallet' = wallet - sold /\ earned' = earned + sold * Proceeds
        /\ UNCHANGED <<account, credit, unpaid, state, price, ratio, astray>>
  BY DEF Sell
<1> DEFINE es == <<[ev |-> "sell", qty |-> sold, premium |-> sold * Proceeds, at |-> Now]>>
<1>2. Now \in Stamps
  BY <1>0, <1>1, LoggedParts
<1>11. earned \in Int /\ wallet \in Nat /\ account \in Int /\ sold \in Nat \ {0}
  BY <1>0 DEF HistoryTypes
<1>3. sold * Proceeds \in Int
  BY <1>11 DEF Proceeds, Unit
<1>4. es[1] \in Entries /\ es = <<es[1]>>
  BY <1>2, <1>3, <1>11 DEF Entries
<1>5. PICK e \in Entries : e = es[1]
  BY <1>4
<1>6. e.ev = "sell" /\ e.qty = sold /\ e.premium = sold * Proceeds /\ e.at = Now
  BY <1>5
<1>7. Logged(<<e>>)
  BY <1>1, <1>4, <1>5
<1> HIDE DEF es
<1>8. FillOf(e, "logs")' = [kind |-> "out", qty |-> sold, cash |-> e.premium]
  <2>1. FillOf(e, "logs")' = FillWith(e, 0)
    BY <1>6, FillIs
  <2> QED
    BY <1>6, <2>1 DEF FillWith
<1>9. \A q \in Nat : LeftBy(q, FillOf(e, "logs")') = q - sold
  BY <1>8 DEF LeftBy
<1>10. CashOf(e) = sold * Proceeds
  BY <1>6 DEF CashOf
<1>12. earned' = earned + CashOf(e) /\ wallet' \in Nat
  BY <1>1, <1>10, <1>11
<1>13. \A q \in Nat : q <= wallet => LeftBy(q, FillOf(e, "logs")') <= wallet'
  BY <1>1, <1>9, <1>11
<1> QED
  BY <1>1, <1>6, <1>7, <1>11, <1>12, <1>13, OneKeeps

LEMMA RedeemKeeps ==
  ASSUME HistoryInv, Redeem
  PROVE  HistoryInv'
<1>0. HistoryTypes
  BY DEF HistoryInv
<1>1. PICK sold \in 1..wallet :
        /\ Logged(<<[ev |-> "redeem", qty |-> sold, payout |-> AtRatio(sold * Pays(price)), at |-> Now]>>)
        /\ wallet' = wallet - sold /\ earned' = earned + AtRatio(sold * Pays(price))
        /\ UNCHANGED <<account, credit, unpaid, state, price, ratio, astray>>
  BY DEF Redeem
<1> DEFINE payout == AtRatio(sold * Pays(price))
           es == <<[ev |-> "redeem", qty |-> sold, payout |-> payout, at |-> Now]>>
<1>2. Now \in Stamps
  BY <1>0, <1>1, LoggedParts
<1>11. earned \in Int /\ wallet \in Nat /\ account \in Int /\ sold \in Nat \ {0}
  BY <1>0 DEF HistoryTypes
<1>3. payout \in Int
  <2>1. Pays(price) \in Int /\ \A x \in Int : AtRatio(x) \in Int
    BY <1>0, PaysTypes
  <2>2. sold * Pays(price) \in Int
    BY <1>11, <2>1
  <2> QED
    BY <2>1, <2>2
<1>41. Logged(es) /\ earned' = earned + payout
  BY <1>1
<1> HIDE DEF payout
<1>4. es[1] \in Entries /\ es = <<es[1]>>
  BY <1>2, <1>3, <1>11 DEF Entries
<1>5. PICK e \in Entries : e = es[1]
  BY <1>4
<1>6. e.ev = "redeem" /\ e.qty = sold /\ e.payout = payout /\ e.at = Now
  BY <1>5
<1>7. Logged(<<e>>)
  BY <1>41, <1>4, <1>5
<1> HIDE DEF es
<1>8. FillOf(e, "logs")' = [kind |-> "out", qty |-> sold, cash |-> e.payout]
  <2>1. FillOf(e, "logs")' = FillWith(e, 0)
    BY <1>6, FillIs
  <2> QED
    BY <1>6, <2>1 DEF FillWith
<1>9. \A q \in Nat : LeftBy(q, FillOf(e, "logs")') = q - sold
  BY <1>8 DEF LeftBy
<1>10. CashOf(e) = payout
  BY <1>6 DEF CashOf
<1>12. earned' = earned + CashOf(e) /\ wallet' \in Nat
  BY <1>1, <1>41, <1>10, <1>11
<1>13. \A q \in Nat : q <= wallet => LeftBy(q, FillOf(e, "logs")') <= wallet'
  BY <1>1, <1>9, <1>11
<1> QED
  BY <1>1, <1>6, <1>7, <1>11, <1>12, <1>13, OneKeeps

\* A balance and nothing else: closeShortWithWrapper, unwrapLong, wrapLong.
LEMMA BalanceKeeps ==
  ASSUME HistoryInv, NotSettled, NEW d \in {-1, 1}, Logged(<<Balance(d)>>), account' = account + d,
         UNCHANGED <<credit, unpaid, state, price, ratio, earned>>, astray => astray',
         wallet' \in Nat, astray' \/ wallet' >= wallet \/ (d = 1 /\ account < 0 /\ wallet' = wallet - 1)
  PROVE  HistoryInv'
<1> DEFINE es == <<[ev |-> "balance", delta |-> d, balance |-> account + d, at |-> Now]>>
<1>0. HistoryTypes
  BY DEF HistoryInv
<1>1. Logged(es)
  BY DEF Balance
<1>2. Now \in Stamps /\ log' = log \o es
  BY <1>0, <1>1, LoggedParts
<1>11. earned \in Int /\ wallet \in Nat /\ account \in Int /\ d \in Int
  BY <1>0 DEF HistoryTypes
<1>4. es[1] \in Entries /\ es = <<es[1]>>
  BY <1>2, <1>11 DEF Entries
<1>5. PICK e \in Entries : e = es[1]
  BY <1>4
<1>6. e.ev = "balance" /\ e.delta = d /\ e.balance = account + d /\ e.at = Now
  BY <1>5
<1>7. Logged(<<e>>) /\ log' = log \o <<e>>
  BY <1>1, <1>2, <1>4, <1>5
<1> HIDE DEF es
<1> DEFINE n == Len(log) + 1
<1>71. Longer(n) /\ log'[n] = e /\ n \in Nat /\ \A i \in 1..n : i \notin DOMAIN log => i = n
  BY <1>0, <1>7, OneLonger, LogParts
<1> HIDE DEF n
<1>8. FillOf(e, "logs")' = IF e.delta <= 0 \/ e.balance - e.delta >= 0 THEN NoFill
                           ELSE [kind |-> "out", cash |-> 0,
                                 qty |-> IF e.balance > 0 THEN -(e.balance - e.delta) ELSE e.delta]
  BY <1>6, <1>71, BalanceFill
<1>9. \A q \in Nat : LeftBy(q, FillOf(e, "logs")') = IF d = 1 /\ account < 0 THEN q - 1 ELSE q
  <2>1. CASE d = 1 /\ account < 0
    <3>1. e.delta = 1 /\ e.balance - e.delta < 0 /\ ~(e.balance > 0)
      BY <1>6, <1>11, <2>1
    <3>2. FillOf(e, "logs")' = [kind |-> "out", cash |-> 0, qty |-> 1]
      BY <1>6, <1>8, <1>11, <3>1
    <3> QED
      BY <2>1, <3>2 DEF LeftBy
  <2>2. CASE ~(d = 1 /\ account < 0)
    <3>1. e.delta <= 0 \/ e.balance - e.delta >= 0
      BY <1>6, <1>11, <2>2
    <3>2. FillOf(e, "logs")' = NoFill
      BY <1>8, <3>1
    <3> QED
      BY <2>2, <3>2, UnmovedBy
  <2> QED
    BY <2>1, <2>2
<1>10. CashOf(e) = 0
  BY <1>6 DEF CashOf
<1>12. earned' = earned + CashOf(e) /\ account' = e.balance /\ account' \in Int
  BY <1>6, <1>10, <1>11
<1>13. astray' \/ (\A q \in Nat : q <= wallet => LeftBy(q, FillOf(e, "logs")') <= wallet')
  BY <1>9, <1>11
<1> QED
  BY <1>6, <1>7, <1>12, <1>13, OneKeeps
LEMMA MintKeeps ==
  ASSUME HistoryInv, Mint
  PROVE  HistoryInv'
<1>0. HistoryTypes
  BY DEF HistoryInv
<1>1. PICK own \in BOOLEAN :
        /\ state = "active"
        /\ Logged(<<Balance(-1), [ev |-> "mint", qty |-> 1, fee |-> WriteFee, own |-> own, at |-> Now]>>)
        /\ account' = account - 1 /\ earned' = earned - WriteFee
        /\ wallet' = IF own THEN wallet + 1 ELSE wallet
        /\ UNCHANGED <<credit, unpaid, state, price, ratio, astray, drained>>
  BY DEF Mint
<1> DEFINE es == <<[ev |-> "balance", delta |-> -1, balance |-> account + -1, at |-> Now],
                   [ev |-> "mint", qty |-> 1, fee |-> WriteFee, own |-> own, at |-> Now]>>
<1>2. Logged(es)
  BY <1>1 DEF Balance
<1>3. Now \in Stamps /\ log' = log \o es
  BY <1>0, <1>2, LoggedParts
<1>4. earned \in Int /\ wallet \in Nat /\ account \in Int /\ WriteFee \in Int
  BY <1>0 DEF HistoryTypes, WriteFee, Unit
<1>5. es[1] \in Entries /\ es[2] \in Entries /\ es = <<es[1], es[2]>>
  BY <1>3, <1>4 DEF Entries
<1>6. PICK e \in Entries : e = es[1]
  BY <1>5
<1>7. PICK g \in Entries : g = es[2]
  BY <1>5
<1>8. e.ev = "balance" /\ e.delta = -1 /\ e.balance = account + -1 /\ e.at = Now
  BY <1>6
<1>9. g.ev = "mint" /\ g.qty = 1 /\ g.fee = WriteFee /\ g.own = own /\ g.at = Now
  BY <1>7
<1>10. Logged(<<e, g>>) /\ log' = log \o <<e, g>>
  BY <1>2, <1>3, <1>5, <1>6, <1>7
<1> HIDE DEF es
<1>11. NotSettled
  BY <1>1, OpenIsNotSettled
<1> DEFINE n == Len(log) + 2
<1>12. Longer(n) /\ log'[n - 1] = e /\ log'[n] = g /\ n \in Nat /\ \A i \in 1..n : i \notin DOMAIN log => i = n \/ i = n - 1
  <2>1. Longer(n) /\ log'[Len(log) + 1] = e /\ log'[n] = g
    BY <1>0, <1>10, TwoLonger
  <2>2. Len(log) \in Nat /\ DOMAIN log = 1..Len(log)
    BY <1>0, LogParts
  <2> QED
    BY <2>1, <2>2
<1> HIDE DEF n
<1>13. FillOf(e, "logs")' = NoFill
  <2>1. e.delta <= 0
    BY <1>8
  <2>2. \A i \in 1..n : i \notin DOMAIN log => log'[i].ev # "settled"
    BY <1>8, <1>9, <1>12
  <2> QED
    BY <1>8, <1>11, <1>12, <2>1, <2>2, BalanceFill
<1>14. FillOf(g, "logs")' = IF own THEN [kind |-> "in", qty |-> 1, cash |-> g.fee] ELSE NoFill
  <2>1. FillOf(g, "logs")' = FillWith(g, 0)
    BY <1>9, FillIs
  <2>2. CASE own
    BY <1>9, <2>1, <2>2 DEF FillWith
  <2>3. CASE ~own
    BY <1>9, <2>1, <2>3 DEF FillWith
  <2> QED
    BY <2>2, <2>3
<1>15. \A q \in Nat : q <= wallet => LeftBy(LeftBy(q, FillOf(e, "logs")'), FillOf(g, "logs")') <= wallet'
  <2> SUFFICES ASSUME NEW q \in Nat, q <= wallet
               PROVE  LeftBy(LeftBy(q, FillOf(e, "logs")'), FillOf(g, "logs")') <= wallet'
    OBVIOUS
  <2>1. LeftBy(q, FillOf(e, "logs")') = q
    BY <1>13, UnmovedBy
  <2>2. CASE own
    <3>1. LeftBy(q, FillOf(g, "logs")') = q + 1
      BY <1>14, <2>2 DEF LeftBy
    <3> QED
      BY <1>1, <1>4, <2>1, <2>2, <3>1
  <2>3. CASE ~own
    <3>1. LeftBy(q, FillOf(g, "logs")') = q
      BY <1>14, <2>3, UnmovedBy
    <3> QED
      BY <1>1, <2>1, <2>3, <3>1
  <2> QED
    BY <2>2, <2>3
<1>16. CashOf(g) = -WriteFee
  BY <1>9 DEF CashOf
<1>17. earned' = earned + CashOf(g) /\ account' = e.balance /\ account' \in Int /\ wallet' \in Nat
  BY <1>1, <1>4, <1>8, <1>16
<1> QED
  BY <1>1, <1>8, <1>9, <1>10, <1>11, <1>15, <1>17, TwoKeep

LEMMA LiquidatedKeeps ==
  ASSUME HistoryInv, Liquidated
  PROVE  HistoryInv'
<1>0. HistoryTypes
  BY DEF HistoryInv
<1>1. /\ state = "active" /\ account < 0 /\ Logged(<<Balance(1), [ev |-> "liquidation", at |-> Now]>>)
      /\ account' = account + 1 /\ UNCHANGED <<wallet, earned, credit, unpaid, state, price, ratio, astray>>
  BY DEF Liquidated
<1> DEFINE es == <<[ev |-> "balance", delta |-> 1, balance |-> account + 1, at |-> Now],
                   [ev |-> "liquidation", at |-> Now]>>
<1>2. Logged(es)
  BY <1>1 DEF Balance
<1>3. Now \in Stamps /\ log' = log \o es
  BY <1>0, <1>2, LoggedParts
<1>4. earned \in Int /\ wallet \in Nat /\ account \in Int
  BY <1>0 DEF HistoryTypes
<1>5. es[1] \in Entries /\ es[2] \in Entries /\ es = <<es[1], es[2]>>
  BY <1>3, <1>4 DEF Entries
<1>6. PICK e \in Entries : e = es[1]
  BY <1>5
<1>7. PICK g \in Entries : g = es[2]
  BY <1>5
<1>8. e.ev = "balance" /\ e.delta = 1 /\ e.balance = account + 1 /\ e.at = Now
  BY <1>6
<1>9. g.ev = "liquidation" /\ g.at = Now
  BY <1>7
<1>10. Logged(<<e, g>>) /\ log' = log \o <<e, g>>
  BY <1>2, <1>3, <1>5, <1>6, <1>7
<1> HIDE DEF es
<1>11. NotSettled
  BY <1>1, OpenIsNotSettled
<1> DEFINE n == Len(log) + 2
<1>12. Longer(n) /\ log'[n - 1] = e /\ log'[n] = g /\ n \in Nat /\ \A i \in 1..n : i \notin DOMAIN log => i = n \/ i = n - 1
  <2>1. Longer(n) /\ log'[Len(log) + 1] = e /\ log'[n] = g
    BY <1>0, <1>10, TwoLonger
  <2>2. Len(log) \in Nat /\ DOMAIN log = 1..Len(log)
    BY <1>0, LogParts
  <2> QED
    BY <2>1, <2>2
<1> HIDE DEF n
<1>13. FillOf(e, "logs")' = [kind |-> "out", cash |-> 0, qty |-> 1]
  <2>1. e.delta = 1 /\ ~(e.delta <= 0 \/ e.balance - e.delta >= 0) /\ ~(e.balance > 0)
    BY <1>1, <1>4, <1>8
  <2>2. \A i \in 1..n : i \notin DOMAIN log => log'[i].ev # "settled"
    BY <1>8, <1>9, <1>12
  <2>3. FillOf(e, "logs")' = IF e.delta <= 0 \/ e.balance - e.delta >= 0 THEN NoFill
                             ELSE [kind |-> "out", cash |-> 0,
                                   qty |-> IF e.balance > 0 THEN -(e.balance - e.delta) ELSE e.delta]
    BY <1>8, <1>11, <1>12, <2>2, BalanceFill
  <2> QED
    BY <2>1, <2>3
<1>14. FillOf(g, "logs")' = NoFill
  <2>1. FillOf(g, "logs")' = FillWith(g, 0)
    BY <1>9, FillIs
  <2> QED
    BY <1>9, <2>1 DEF FillWith
<1>15. \A q \in Nat : q <= wallet => LeftBy(LeftBy(q, FillOf(e, "logs")'), FillOf(g, "logs")') <= wallet'
  <2> SUFFICES ASSUME NEW q \in Nat, q <= wallet
               PROVE  LeftBy(LeftBy(q, FillOf(e, "logs")'), FillOf(g, "logs")') <= wallet'
    OBVIOUS
  <2>1. LeftBy(q, FillOf(e, "logs")') = q - 1
    BY <1>13 DEF LeftBy
  <2>2. LeftBy(q - 1, NoFill) = q - 1 + 0
    BY NoFillFacts DEF LeftBy
  <2>3. q - 1 + 0 <= wallet
    BY <1>4
  <2> QED
    BY <1>1, <1>14, <2>1, <2>2, <2>3
<1>16. CashOf(g) = 0
  BY <1>9 DEF CashOf
<1>17. earned' = earned + CashOf(g) /\ account' = e.balance /\ account' \in Int /\ wallet' \in Nat
  BY <1>1, <1>4, <1>8, <1>16
<1> QED
  BY <1>1, <1>8, <1>9, <1>10, <1>11, <1>15, <1>17, TwoKeep

LEMMA SettleKeeps ==
  ASSUME HistoryInv, Settle
  PROVE  HistoryInv'
<1>0. HistoryTypes /\ StampsFit /\ AccountQty = account /\ KeptSound
  BY DEF HistoryInv
<1>1. /\ state = "final" /\ account # 0 /\ Logged(<<Balance(-account), [ev |-> "settled", at |-> Now]>>)
      /\ account' = 0 /\ UNCHANGED <<wallet, state, price, ratio, astray>>
      /\ account < 0 => earned' - unpaid' = earned - unpaid + account * Pays(price) /\ credit' = credit
      /\ ~(account < 0) => credit' = credit + account /\ earned' = earned /\ unpaid' = unpaid
      /\ earned' \in Int /\ unpaid' \in Int
  <2>1. earned \in Int /\ unpaid \in Int /\ account \in Int /\ Pays(price) \in Int
    BY <1>0, PaysTypes DEF HistoryTypes
  <2>2. /\ state = "final" /\ Logged(<<Balance(-account), [ev |-> "settled", at |-> Now]>>)
        /\ account' = 0 /\ UNCHANGED <<wallet, state, price, ratio, astray>>
        /\ SettleDebt \/ SettleCredit
    BY DEF Settle
  <2>3. CASE SettleDebt
    <3>1. account < 0 /\ credit' = credit
      BY <2>3 DEF SettleDebt
    <3>2. PICK debt \in Int : debt = -account * Pays(price)
      BY <2>1
    <3>3. PICK own \in Cashes :
            LET collected == IF debt < own THEN debt ELSE own
            IN earned' = earned - collected /\ unpaid' = unpaid + debt - collected
      BY <2>3, <3>2 DEF SettleDebt
    <3>4. own \in Int
      BY HistoryAssumption
    <3>5. PICK collected \in Int : earned' = earned - collected /\ unpaid' = unpaid + debt - collected
      BY <3>3, <3>4
    <3>6. account * Pays(price) = 0 - debt
      BY <2>1, <3>2
    <3>7. earned' - unpaid' = earned - unpaid - debt /\ earned' \in Int /\ unpaid' \in Int
      BY <2>1, <3>5
    <3>8. PICK gain \in Int : gain = account * Pays(price)
      BY <2>1
    <3>9. earned' - unpaid' = earned - unpaid + gain
      BY <2>1, <3>2, <3>6, <3>7, <3>8
    <3>10. account # 0 /\ ~(~(account < 0)) /\ earned' - unpaid' = earned - unpaid + account * Pays(price)
      BY <2>1, <3>1, <3>8, <3>9
    <3> QED
      BY <2>2, <3>1, <3>7, <3>10
  <2>4. CASE SettleCredit
    BY <2>1, <2>2, <2>4 DEF SettleCredit
  <2> QED
    BY <2>2, <2>3, <2>4
<1> DEFINE es == <<[ev |-> "balance", delta |-> -account, balance |-> account + -account, at |-> Now],
                   [ev |-> "settled", at |-> Now]>>
<1>2. Logged(es)
  BY <1>1 DEF Balance
<1>3. Now \in Stamps /\ log' = log \o es /\ tx' = tx + 1 /\ tx' \in Nat /\ block' \in Nat /\ crowd' \in Nat
  BY <1>0, <1>2, LoggedParts
<1>4. /\ earned \in Int /\ unpaid \in Int /\ wallet \in Nat /\ account \in Int
      /\ Pays(price) \in Int /\ tx \in Nat
  BY <1>0, PaysTypes DEF HistoryTypes
<1>5. es[1] \in Entries /\ es[2] \in Entries /\ es = <<es[1], es[2]>>
  BY <1>3, <1>4 DEF Entries
<1>6. PICK e \in Entries : e = es[1]
  BY <1>5
<1>7. PICK g \in Entries : g = es[2]
  BY <1>5
<1>8. e.ev = "balance" /\ e.delta = -account /\ e.balance = account + -account /\ e.at = Now
  BY <1>6
<1>81. e.balance = 0 /\ e.delta \in Int
  BY <1>4, <1>8
<1>9. g.ev = "settled" /\ g.at = Now
  BY <1>7
<1>10. log' = log \o <<e, g>>
  BY <1>3, <1>5, <1>6, <1>7
<1> HIDE DEF es
<1>11. NotSettled
  BY <1>1, OpenIsNotSettled
<1>111. PICK n \in Nat : n = Len(log) + 2
  BY <1>0, LogParts
<1>12. /\ Longer(n) /\ log'[n - 1] = e /\ log'[n] = g /\ StampsFit'
       /\ CashTotal' = CashTotal + CashOf(e) + CashOf(g)
       /\ KeptMoves(LeftBy(LeftBy(Kept.qty, FillOf(e, "logs")'), FillOf(g, "logs")'))
  <2>1. n - 1 = Len(log) + 1
    BY <1>0, <1>111, LogParts
  <2> QED
    BY <1>0, <1>111, <1>3, <1>8, <1>9, <1>10, <2>1, TwoTold
<1>13. n \in Nat /\ n \in 1..n /\ n - 1 \in 1..n /\ DOMAIN log = 1..(n - 2)
  BY <1>0, <1>111, LogParts
<1>14. \A i \in 1..n : i \notin DOMAIN log => i = n \/ i = n - 1
  BY <1>13
<1>15. CashTotal \in Int
  BY CashIsWhole
<1>16. DOMAIN log' = 1..n /\ \A i \in DOMAIN log : log'[i] = log[i]
  BY <1>12 DEF Longer
<1>17. CashTotal' = earned - unpaid
  <2>1. CashOf(e) = 0 /\ CashOf(g) = 0
    BY <1>8, <1>9 DEF CashOf
  <2> QED
    BY <1>11, <1>12, <1>15, <2>1 DEF NotSettled
<1>18. FillOf(e, "logs")' = NoFill
  <2>1. Settles(e, "logs")'
    BY <1>8, <1>9, <1>12, <1>13, <1>16 DEF Settles, Beside, KeyOf
  <2>2. ClosedQty(e, "logs")' = 0
    BY <2>1 DEF ClosedQty
  <2> QED
    BY <1>8, <2>2, FillIs DEF FillWith
<1>19. FillOf(g, "logs")' = NoFill
  <2>1. FillOf(g, "logs")' = FillWith(g, 0)
    BY <1>9, FillIs
  <2> QED
    BY <1>9, <2>1 DEF FillWith
<1>20. KeptSound'
  <2>1. Kept.qty \in Nat
    BY <1>0, KeptTypes DEF Costs
  <2>2. KeptMoves(Kept.qty)
    BY <1>12, <1>18, <1>19, <2>1, UnmovedBy
  <2> QED
    BY <1>0, <1>1, <2>2 DEF KeptSound, KeptMoves
<1>21. AccountQty' = account'
  <2>1. \A i \in 1..n : log'[i].ev = "balance" => i <= n - 1
    BY <1>9, <1>12, <1>13
  <2>2. AccountQty' = log'[n - 1].balance
    BY <1>8, <1>12, <1>13, <2>1, BalanceTold
  <2> QED
    BY <1>1, <1>81, <1>12, <2>2
<1>22. credit = 0 /\ unpaid = 0
  BY <1>11 DEF NotSettled
<1>23. HistoryTypes'
  <2>1. earned' \in Int /\ unpaid' \in Int
    BY <1>1
  <2>2. credit' \in Nat
    BY <1>1, <1>4, <1>22
  <2> QED
    BY <1>0, <1>1, <1>3, <1>12, <2>1, <2>2 DEF HistoryTypes, Longer
<1>240. PICK k \in Nat : k = n - 1
  BY <1>13
<1>24. SettledAt(k, n)'
  <2>1. \A i \in DOMAIN log' : log'[i].ev = "settled" => i = n
    BY <1>8, <1>11, <1>12, <1>14, <1>16 DEF NotSettled
  <2>2. \A i \in DOMAIN log : log'[i].at.tx # tx + 1
    BY <1>0, <1>4, <1>16, OldStamps
  <2>3. e.at.tx = tx + 1
    BY <1>3, <1>8 DEF Now
  <2>4. \A i \in DOMAIN log' : log'[i].ev = "balance" /\ log'[i].at.tx = log'[n - 1].at.tx => i = n - 1
    BY <1>9, <1>12, <1>14, <1>16, <2>2, <2>3
  <2>5. credit' = IF e.delta < 0 THEN -e.delta ELSE 0
    BY <1>1, <1>4, <1>8, <1>22
  <2>6. earned' - unpaid' = CashTotal' - Debt(e.delta)'
    <3>1. Debt(e.delta)' = IF e.delta > 0 THEN e.delta * Pays(price) ELSE 0
      BY <1>1 DEF Debt, Pays
    <3>2. CASE account < 0
      <4>1. Debt(e.delta)' = -(account * Pays(price))
        BY <1>4, <1>8, <3>1, <3>2
      <4>2. account * Pays(price) \in Int
        BY <1>4
      <4> QED
        BY <1>1, <1>4, <1>17, <3>2, <4>1, <4>2
    <3>3. CASE ~(account < 0)
      <4>1. Debt(e.delta)' = 0
        BY <1>4, <1>8, <3>1, <3>3
      <4> QED
        BY <1>1, <1>4, <1>17, <3>3, <4>1
    <3> QED
      BY <3>2, <3>3
  <2>7. log'[n - 1].ev = "balance" /\ log'[n].ev = "settled" /\ log'[n - 1].at = log'[n].at
    BY <1>8, <1>9, <1>12
  <2>8. log'[n - 1].delta = e.delta
    BY <1>12
  <2> QED
    BY <1>1, <1>240, <2>1, <2>4, <2>5, <2>6, <2>7, <2>8 DEF SettledAt, Debt
<1>25. SettledOnce'
  BY <1>13, <1>16, <1>240, <1>24 DEF SettledOnce
<1> QED
  BY <1>12, <1>20, <1>21, <1>23, <1>25 DEF HistoryInv

\* Steps that no history tells: transfers, the expiry, the price, the ratio.
LEMMA UntoldKeeps ==
  ASSUME HistoryInv, Receive \/ Send \/ Expire \/ Finalize \/ SetRatio \/ UNCHANGED historyVars
  PROVE  HistoryInv'
<1>0. HistoryTypes /\ StampsFit /\ AccountQty = account /\ SettledOnce /\ KeptSound
  BY DEF HistoryInv
<1>1. UNCHANGED <<log, account, earned, credit, unpaid>> /\ (tx' = tx \/ tx' = tx + 1)
      /\ (astray' \/ wallet' >= wallet) /\ (astray => astray')
  BY <1>0 DEF HistoryTypes, Receive, Send, Expire, Finalize, SetRatio, historyVars
<1>2. HistoryTypes'
  <2>1. block' \in Nat /\ crowd' \in Nat /\ tx' \in Nat
    BY <1>0 DEF HistoryTypes, Receive, Send, Expire, Finalize, SetRatio, historyVars
  <2>2. wallet' \in Nat
    BY <1>0 DEF HistoryTypes, Receive, Send, Expire, Finalize, SetRatio, historyVars
  <2>3. state' \in {"active", "expired", "final"} /\ ratio' \in 0..2
    BY <1>0 DEF HistoryTypes, Receive, Send, Expire, Finalize, SetRatio, historyVars
  <2>4. price' \in Int
    BY <1>0, HistoryAssumption DEF HistoryTypes, Receive, Send, Expire, Finalize, SetRatio, historyVars
  <2> QED
    BY <1>0, <1>1, <2>1, <2>2, <2>3, <2>4 DEF HistoryTypes
<1>3. StampsFit'
  <2>1. \A i \in DOMAIN log : log[i].at.tx \in Nat /\ log[i].at.tx <= tx
    BY <1>0, OldStamps
  <2>2. tx \in Nat
    BY <1>0 DEF HistoryTypes
  <2>3. \A i \in DOMAIN log : log[i].at.tx <= tx'
    BY <1>1, <2>1, <2>2
  <2> QED
    BY <1>0, <1>1, <2>3 DEF StampsFit
<1>4. CashTotal' = CashTotal /\ OwnTotal' = OwnTotal /\ Kept' = Kept /\ AccountQty' = AccountQty
  BY <1>1, Untold
<1>5. SettledOnce'
  <2>1. CASE NotSettled
    <3>1. NotSettled'
      BY <1>1, <1>4, <2>1 DEF NotSettled
    <3> QED
      BY <3>1 DEF SettledOnce
  <2>2. CASE \E k, j \in DOMAIN log : SettledAt(k, j)
    <3>1. PICK k \in DOMAIN log, j \in DOMAIN log : SettledAt(k, j)
      BY <2>2
    <3>2. state = "final"
      BY <3>1 DEF SettledAt
    <3>3. UNCHANGED <<state, price>>
      BY <3>2 DEF Receive, Send, Expire, Finalize, SetRatio, historyVars
    <3>4. Debt(log[k].delta)' = Debt(log[k].delta)
      BY <1>1, <3>3 DEF Debt, Pays
    <3>5. SettledAt(k, j)'
      BY <1>1, <1>4, <3>1, <3>3, <3>4 DEF SettledAt
    <3> QED
      BY <1>1, <3>5 DEF SettledOnce
  <2> QED
    BY <1>0, <2>1, <2>2 DEF SettledOnce
<1>6. KeptSound'
  <2>1. Kept.qty \in Nat /\ wallet \in Nat /\ wallet' \in Nat
    BY <1>0, <1>2, KeptTypes DEF Costs, HistoryTypes
  <2>2. astray \/ Kept.qty <= wallet => astray' \/ Kept.qty <= wallet'
    BY <1>1, <2>1
  <2> QED
    BY <1>0, <1>4, <2>2 DEF KeptSound
<1> QED
  BY <1>0, <1>1, <1>2, <1>3, <1>4, <1>5, <1>6 DEF HistoryInv

LEMMA HistoryStarts ==
  ASSUME HistoryInit
  PROVE  HistoryInv
<1>1. log = <<>> /\ DOMAIN log = 1..0 /\ Len(log) = 0
  BY DEF HistoryInit
<1>2. HistoryTypes
  BY <1>1 DEF HistoryInit, HistoryTypes
<1>3. StampsFit
  BY <1>1 DEF StampsFit
<1>4. AccountQty = account
  BY <1>1 DEF AccountQty, HistoryInit
<1> DEFINE zero == 0
           flow == [i \in DOMAIN log |-> CashOf(log[i])]
           own == [i \in DOMAIN log |-> OwnCash(log[i])]
           fills == Fills("logs")
<1>5. zero \in Nat /\ flow \in [1..zero -> Int] /\ own \in [1..zero -> Int] /\ fills \in [1..zero -> FillSet]
  BY <1>1 DEF Fills
<1>6. CashTotal = 0 /\ OwnTotal = 0
  <2> HIDE DEF flow, own, zero
  <2>1. \A i \in 1..zero : flow[i] = 0 /\ own[i] = 0
    BY DEF zero
  <2>2. TotalOf(flow) = 0 /\ TotalOf(own) = 0
    BY <1>5, <2>1, TotalOfNone
  <2> QED
    BY <2>2 DEF CashTotal, OwnTotal, flow, own
<1>7. Kept = NoCost
  <2> DEFINE v == [k \in {zero} |-> NoCost]
  <2>1. v[0] = NoCost /\ v[zero] = NoCost /\ \A k \in 1..zero : v[k] = Averaged(v[k - 1], fills[k])
    OBVIOUS
  <2> HIDE DEF v, fills, zero
  <2>2. AverageCost(fills) = v[zero]
    BY <1>5, <2>1, AverageIs
  <2> QED
    BY <2>1, <2>2 DEF Kept, fills
<1>8. SettledOnce
  BY <1>1, <1>6 DEF SettledOnce, NotSettled, HistoryInit
<1>9. KeptSound
  <2>1. Kept.qty = 0 /\ Kept.cost = 0 /\ Kept.realized = 0
    BY <1>7 DEF NoCost
  <2> QED
    BY <1>2, <1>6, <2>1 DEF KeptSound, HistoryTypes
<1> QED
  BY <1>2, <1>3, <1>4, <1>8, <1>9 DEF HistoryInv

LEMMA HistoryStep ==
  ASSUME HistoryInv, [HistoryNext]_historyVars
  PROVE  HistoryInv'
<1>0. HistoryTypes
  BY DEF HistoryInv
<1>1. CASE CloseShort
  <2>1. state \in {"active", "expired"} /\ wallet > 0 /\ account < 0 /\ Logged(<<Balance(1)>>)
        /\ wallet' = wallet - 1 /\ account' = account + 1
        /\ UNCHANGED <<credit, unpaid, state, price, ratio, earned, astray>>
    BY <1>1 DEF CloseShort
  <2>2. NotSettled
    BY <2>1, OpenIsNotSettled
  <2>3. wallet' \in Nat
    BY <1>0, <2>1 DEF HistoryTypes
  <2> QED
    BY <2>1, <2>2, <2>3, BalanceKeeps
<1>2. CASE UnwrapLong
  <2>1. state = "active" /\ wallet > 0 /\ Logged(<<Balance(1)>>)
        /\ wallet' = wallet - 1 /\ account' = account + 1 /\ astray'
        /\ UNCHANGED <<credit, unpaid, state, price, ratio, earned>>
    BY <1>2 DEF UnwrapLong
  <2>2. NotSettled
    BY <2>1, OpenIsNotSettled
  <2>3. wallet' \in Nat
    BY <1>0, <2>1 DEF HistoryTypes
  <2> QED
    BY <2>1, <2>2, <2>3, BalanceKeeps
<1>3. CASE WrapLong
  <2>1. state = "active" /\ account > 0 /\ Logged(<<Balance(-1)>>)
        /\ wallet' = wallet + 1 /\ account' = account - 1
        /\ UNCHANGED <<credit, unpaid, state, price, ratio, earned, astray>>
    BY <1>3 DEF WrapLong
  <2>2. NotSettled
    BY <2>1, OpenIsNotSettled
  <2>3. wallet' \in Nat /\ wallet' >= wallet /\ account' = account + -1
    BY <1>0, <2>1 DEF HistoryTypes
  <2> QED
    BY <2>1, <2>2, <2>3, BalanceKeeps
<1> QED
  BY <1>1, <1>2, <1>3, BuyKeeps, SellKeeps, MintKeeps, RedeemKeeps, LiquidatedKeeps, SettleKeeps, UntoldKeeps
     DEF HistoryNext

HistorySpec == HistoryInit /\ [][HistoryNext]_historyVars

\* THEOREM.  In any order of trades, transfers, liquidations and settlements, however
\* much of a debt the account can pay, the page of a series shows what the wallet paid
\* and got, debts in full: from the logs, and from the indexer's records while no close
\* shares a block with a settlement (pnl.ts; getTradePnl of reads.ts).
THEOREM ProfitStaysExact == HistorySpec => []ProfitExact
<1>1. HistoryInit => HistoryInv
  BY HistoryStarts
<1>2. HistoryInv /\ [HistoryNext]_historyVars => HistoryInv'
  BY HistoryStep
<1>3. HistoryInv => ProfitExact
  BY CardRight
<1> QED
  BY <1>1, <1>2, <1>3, PTL DEF HistorySpec

-----------------------------------------------------------------------------
(* Estimated liquidation prices                                            *)

Brackets == [lo : Int, hi : Int, stop : BOOLEAN]

LEMMA BracketParts ==
  ASSUME NEW r \in Brackets
  PROVE  r.lo \in Int /\ r.hi \in Int /\ r.stop \in BOOLEAN
  BY DEF Brackets

LEMMA HalveStays ==
  ASSUME NEW r \in Brackets, NEW up \in BOOLEAN
  PROVE  Halve(r, up) \in Brackets
<1> DEFINE mid == (r.lo + r.hi) \div 2
<1>1. mid \in Int
  BY BracketParts
<1>2. [r EXCEPT !.stop = TRUE] \in Brackets
  BY DEF Brackets
<1>3. [r EXCEPT !.hi = mid] \in Brackets
  <2> HIDE DEF mid
  <2> QED BY <1>1 DEF Brackets
<1>4. [r EXCEPT !.lo = mid] \in Brackets
  <2> HIDE DEF mid
  <2> QED BY <1>1 DEF Brackets
<1>5. Halve(r, up) = IF r.stop \/ ~Priced(mid) THEN [r EXCEPT !.stop = TRUE]
                     ELSE IF Below(mid) = up THEN [r EXCEPT !.hi = mid] ELSE [r EXCEPT !.lo = mid]
  BY DEF Halve
<1> HIDE DEF mid
<1> QED
  BY <1>2, <1>3, <1>4, <1>5

\* The step between a safe price and one that is below, on the side of today's price.
Holds(r, up) ==
  /\ r.lo < r.hi
  /\ IF up THEN Spot <= r.lo /\ r.lo < edges.up /\ edges.up <= r.hi
     ELSE r.hi <= Spot /\ r.lo <= edges.down /\ edges.down < r.hi
  /\ r.stop => \E s \in r.lo..r.hi : ~Priced(s)

Narrow(r, m) == r.stop \/ r.hi - r.lo <= m

LEMMA HalveHolds ==
  ASSUME NEW r \in Brackets, NEW up \in BOOLEAN, Holds(r, up), edges \in [up : Int, down : Int],
         Spot \in Int, edges.down < Spot, Spot < edges.up
  PROVE  /\ Holds(Halve(r, up), up)
         /\ \A m \in Nat \ {0} : Narrow(r, 2 * m) => Narrow(Halve(r, up), m)
<1> DEFINE mid == (r.lo + r.hi) \div 2
           t == Halve(r, up)
<1>0. r.lo \in Int /\ r.hi \in Int /\ r.lo < r.hi /\ edges.up \in Int /\ edges.down \in Int
  BY BracketParts DEF Holds
<1>1. mid \in Int /\ r.lo <= mid /\ mid < r.hi /\ \A m \in Nat \ {0} : r.hi - r.lo <= 2 * m => r.hi - mid <= m /\ mid - r.lo <= m
  BY <1>0
<1>2. t = IF r.stop \/ ~Priced(mid) THEN [r EXCEPT !.stop = TRUE]
          ELSE IF Below(mid) = up THEN [r EXCEPT !.hi = mid] ELSE [r EXCEPT !.lo = mid]
  BY DEF Halve
<1> HIDE DEF mid, t
<1>3. CASE r.stop \/ ~Priced(mid)
  <2>1. t.lo = r.lo /\ t.hi = r.hi /\ t.stop
    BY <1>2, <1>3 DEF Brackets
  <2>2. \E s \in r.lo..r.hi : ~Priced(s)
    <3>1. CASE r.stop
      BY <3>1 DEF Holds
    <3>2. CASE ~Priced(mid)
      <4>1. mid \in r.lo..r.hi
        BY <1>0, <1>1
      <4> QED
        BY <3>2, <4>1
    <3> QED
      BY <1>3, <3>1, <3>2
  <2>3. Holds(t, up)
    BY <2>1, <2>2 DEF Holds
  <2> QED
    BY <2>1, <2>3 DEF Narrow, t
<1>4. CASE ~(r.stop \/ ~Priced(mid)) /\ up /\ Below(mid)
  <2>1. t.lo = r.lo /\ t.hi = mid /\ ~t.stop
    BY <1>2, <1>4 DEF Brackets
  <2>2. edges.up <= mid /\ Spot <= r.lo /\ r.lo < edges.up
    BY <1>0, <1>1, <1>4 DEF Holds, Below
  <2>3. Holds(t, up)
    BY <1>0, <1>1, <1>4, <2>1, <2>2 DEF Holds
  <2>4. \A m \in Nat \ {0} : Narrow(r, 2 * m) => Narrow(t, m)
    BY <1>1, <1>4, <2>1 DEF Narrow
  <2> QED
    BY <2>3, <2>4 DEF t
<1>5. CASE ~(r.stop \/ ~Priced(mid)) /\ up /\ ~Below(mid)
  <2>1. t.lo = mid /\ t.hi = r.hi /\ ~t.stop
    BY <1>2, <1>5 DEF Brackets
  <2>2. mid < edges.up /\ Spot <= mid /\ edges.up <= r.hi
    BY <1>0, <1>1, <1>5 DEF Holds, Below
  <2>3. Holds(t, up)
    BY <1>0, <1>1, <1>5, <2>1, <2>2 DEF Holds
  <2>4. \A m \in Nat \ {0} : Narrow(r, 2 * m) => Narrow(t, m)
    BY <1>1, <1>5, <2>1 DEF Narrow
  <2> QED
    BY <2>3, <2>4 DEF t
<1>6. CASE ~(r.stop \/ ~Priced(mid)) /\ ~up /\ ~Below(mid)
  <2>0. t = [r EXCEPT !.hi = mid]
    <3>1. up = FALSE
      BY <1>6
    <3>2. Below(mid) = FALSE
      BY <1>6, Zenon DEF Below
    <3> QED
      BY <1>2, <1>6, <3>1, <3>2
  <2>1. t.lo = r.lo /\ t.hi = mid /\ ~t.stop
    BY <1>6, <2>0 DEF Brackets
  <2>2. edges.down < mid /\ mid <= Spot /\ r.lo <= edges.down
    BY <1>0, <1>1, <1>6 DEF Holds, Below
  <2>3. Holds(t, up)
    BY <1>0, <1>1, <1>6, <2>1, <2>2 DEF Holds
  <2>4. \A m \in Nat \ {0} : Narrow(r, 2 * m) => Narrow(t, m)
    BY <1>1, <1>6, <2>1 DEF Narrow
  <2> QED
    BY <2>3, <2>4 DEF t
<1>7. CASE ~(r.stop \/ ~Priced(mid)) /\ ~up /\ Below(mid)
  <2>1. t.lo = mid /\ t.hi = r.hi /\ ~t.stop
    BY <1>2, <1>7 DEF Brackets
  <2>2. mid <= edges.down /\ r.hi <= Spot /\ edges.down < r.hi
    BY <1>0, <1>1, <1>7 DEF Holds, Below
  <2>3. Holds(t, up)
    BY <1>0, <1>1, <1>7, <2>1, <2>2 DEF Holds
  <2>4. \A m \in Nat \ {0} : Narrow(r, 2 * m) => Narrow(t, m)
    BY <1>1, <1>7, <2>1 DEF Narrow
  <2> QED
    BY <2>3, <2>4 DEF t
<1> QED
  BY <1>3, <1>4, <1>5, <1>6, <1>7

LEMMA HalvingRuns ==
  ASSUME NEW r \in Brackets, NEW up \in BOOLEAN
  PROVE  \E v \in [0..Halvings -> Brackets] : /\ v[0] = r /\ \A k \in 1..Halvings : v[k] = Halve(v[k - 1], up)
                                              /\ Halved(r, up) = v[Halvings]
<1> DEFINE n == Halvings
           xs == [i \in 1..n |-> i]
           F == [p \in Brackets \X (1..n) |-> Halve(p[1], up)]
           Is(h) == h = [s \in SUBSET (DOMAIN xs) |-> IF s = {} THEN r ELSE Halve(h[s \ {Max(s)}], up)]
           H == CHOOSE h : Is(h)
<1>01. n \in Nat
  BY DEF Halvings
<1>0. DOMAIN xs = 1..n
  OBVIOUS
<1>1. \A a \in Brackets, k \in 1..n : F[<<a, k>>] = Halve(a, up)
  OBVIOUS
<1>11. F \in [Brackets \X (1..n) -> Brackets]
  <2> SUFFICES ASSUME NEW p \in Brackets \X (1..n) PROVE Halve(p[1], up) \in Brackets
    OBVIOUS
  <2> QED
    BY HalveStays
<1>6. Halved(r, up) = H[1..n]
  BY <1>0 DEF Halved, FoldLeft, MapThenFoldSet
<1> HIDE DEF F, n
<1>12. \E g \in [SUBSET (1..n) -> Brackets] : IsRun(g, F, r, n)
  BY <1>01, <1>11, RunExists
<1>2. PICK g \in [SUBSET (1..n) -> Brackets] : IsRun(g, F, r, n)
  BY <1>12
<1>3. \A s \in SUBSET (1..n) : g[s] = IF s = {} THEN r ELSE Halve(g[s \ {Max(s)}], up)
  <2> SUFFICES ASSUME NEW s \in SUBSET (1..n), s # {}
               PROVE  F[<<g[s \ {Max(s)}], Max(s)>>] = Halve(g[s \ {Max(s)}], up)
    BY <1>2 DEF IsRun
  <2>1. Max(s) \in 1..n
    BY <1>01, MaxIn
  <2>2. g[s \ {Max(s)}] \in Brackets
    BY <1>2
  <2> QED
    BY <1>1, <2>1, <2>2
<1>4. Is(g)
  BY <1>0, <1>3
<1>5. Is(H)
  BY <1>4
<1> HIDE DEF H
<1>7. \A s \in SUBSET (1..n) : H[s] = IF s = {} THEN r ELSE Halve(H[s \ {Max(s)}], up)
  BY <1>0, <1>5
<1> HIDE DEF Is
<1> HIDE DEF xs
<1>80. H[{}] = r
  <2>1. {} \in SUBSET (1..n)
    OBVIOUS
  <2> QED BY <1>7, <2>1
<1>8. H[{}] = r /\ \A k \in 1..n : H[1..k] = Halve(H[1..(k - 1)], up)
  <2> SUFFICES ASSUME NEW k \in 1..n PROVE H[1..k] = Halve(H[1..(k - 1)], up)
    BY <1>80
  <2>1. 1..k \in SUBSET (1..n) /\ 1..k # {} /\ Max(1..k) = k /\ (1..k) \ {k} = 1..(k - 1)
    BY <1>01, PrefixRun
  <2> QED
    BY <1>7, <2>1
<1>81. Follows(H, Brackets, F, r, n)
  BY <1>1, <1>8 DEF Follows
<1>82. \E v \in [0..n -> Brackets] : Passes(v, F, r, n) /\ v[n] = H[1..n]
  <2>1. Reaches(H[1..n], Brackets, F, r, n)
    BY <1>01, <1>11, <1>81, RunPasses
  <2> QED
    BY <2>1 DEF Reaches
<1>9. PICK v \in [0..n -> Brackets] : Passes(v, F, r, n) /\ v[n] = H[1..n]
  BY <1>82
<1>13. \A k \in 1..n : v[k] = Halve(v[k - 1], up)
  <2> SUFFICES ASSUME NEW k \in 1..n PROVE v[k] = Halve(v[k - 1], up)
    OBVIOUS
  <2>1. v[k - 1] \in Brackets
    BY <1>01, <1>9
  <2> QED
    BY <1>1, <1>9, <2>1 DEF Passes
<1>14. v[0] = r
  BY <1>9 DEF Passes
<1>15. \E w \in [0..n -> Brackets] : w[0] = r /\ (\A k \in 1..n : w[k] = Halve(w[k - 1], up)) /\ Halved(r, up) = w[n]
  BY <1>6, <1>9, <1>13, <1>14
<1> QED
  BY <1>15 DEF n

\* Sixteen halvings end at the edge, or at a price the views could not work with.
LEMMA HalvedIsEdge ==
  ASSUME NEW r \in Brackets, NEW up \in BOOLEAN, Holds(r, up), r.hi - r.lo <= 65536,
         edges \in [up : Int, down : Int], Spot \in Int, edges.down < Spot, Spot < edges.up
  PROVE  /\ Halved(r, up) \in Brackets /\ Holds(Halved(r, up), up)
         /\ Halved(r, up).stop \/ Halved(r, up).hi - Halved(r, up).lo <= 1
<1>1. PICK v \in [0..16 -> Brackets] : v[0] = r /\ (\A k \in 1..16 : v[k] = Halve(v[k - 1], up)) /\ Halved(r, up) = v[16]
  <2>1. \E v \in [0..Halvings -> Brackets] : v[0] = r /\ (\A k \in 1..Halvings : v[k] = Halve(v[k - 1], up))
                                             /\ Halved(r, up) = v[Halvings]
    BY HalvingRuns
  <2> QED
    BY <2>1 DEF Halvings
<1> DEFINE Good(k, m) == Holds(v[k], up) /\ Narrow(v[k], m)
<1>2. ASSUME NEW k \in 1..16, NEW m \in Nat \ {0}, Good(k - 1, 2 * m)
      PROVE  Good(k, m)
  <2>1. v[k - 1] \in Brackets
    OBVIOUS
  <2>2. v[k] = Halve(v[k - 1], up)
    BY <1>1
  <2> QED
    BY <1>2, <2>1, <2>2, HalveHolds
<1>3. Good(0, 65536)
  BY <1>1 DEF Narrow
<1> HIDE DEF Good
<1>4. Good(1, 32768)
  BY <1>2, <1>3
<1>5. Good(2, 16384)
  BY <1>2, <1>4
<1>6. Good(3, 8192)
  BY <1>2, <1>5
<1>7. Good(4, 4096)
  BY <1>2, <1>6
<1>8. Good(5, 2048)
  BY <1>2, <1>7
<1>9. Good(6, 1024)
  BY <1>2, <1>8
<1>10. Good(7, 512)
  BY <1>2, <1>9
<1>11. Good(8, 256)
  BY <1>2, <1>10
<1>12. Good(9, 128)
  BY <1>2, <1>11
<1>13. Good(10, 64)
  BY <1>2, <1>12
<1>14. Good(11, 32)
  BY <1>2, <1>13
<1>15. Good(12, 16)
  BY <1>2, <1>14
<1>16. Good(13, 8)
  BY <1>2, <1>15
<1>17. Good(14, 4)
  BY <1>2, <1>16
<1>18. Good(15, 2)
  BY <1>2, <1>17
<1>19. Good(16, 1)
  BY <1>2, <1>18
<1> QED
  BY <1>1, <1>19 DEF Good, Narrow

Between(x, y) == \E s \in x..y : ~Priced(s)

\* What a step that is bisected comes to: the safe end s, the end t that is below.
LEMMA BisectIsEdge ==
  ASSUME NEW s \in Int, NEW t \in Int, edges \in [up : Int, down : Int], Spot \in Int,
         edges.down < Spot, Spot < edges.up
  PROVE  /\ Spot <= s /\ s < edges.up /\ edges.up <= t /\ t - s <= 65536 =>
              Bisect(s, t) \in Int /\ (Bisect(s, t) = edges.up \/ Between(Spot, Bisect(s, t)))
         /\ s <= Spot /\ edges.down < s /\ t <= edges.down /\ s - t <= 65536 =>
              Bisect(s, t) \in Int /\ (Bisect(s, t) = edges.down \/ Between(Bisect(s, t), Spot))
<1>1. ASSUME Spot <= s, s < edges.up, edges.up <= t, t - s <= 65536
      PROVE  Bisect(s, t) \in Int /\ (Bisect(s, t) = edges.up \/ Between(Spot, Bisect(s, t)))
  <2>1. s < t
    BY <1>1
  <2>2. PICK r : r = [lo |-> s, hi |-> t, stop |-> FALSE]
    OBVIOUS
  <2>3. PICK u \in BOOLEAN : u = TRUE
    OBVIOUS
  <2>4. r \in Brackets /\ r.lo = s /\ r.hi = t /\ ~r.stop
    BY <2>2 DEF Brackets
  <2>5. Holds(r, u) /\ r.hi - r.lo <= 65536
    BY <1>1, <2>1, <2>3, <2>4 DEF Holds
  <2>6. PICK e : e = Halved(r, u)
    OBVIOUS
  <2>7. e \in Brackets /\ Holds(e, u) /\ (e.stop \/ e.hi - e.lo <= 1)
    BY <2>4, <2>5, <2>6, HalvedIsEdge
  <2>8. Bisect(s, t) = e.hi
    <3>1. (s < t) = TRUE
      BY <2>1
    <3> QED BY <2>2, <2>3, <2>6, <3>1 DEF Bisect
  <2>9. e.lo \in Int /\ e.hi \in Int
    BY <2>7, BracketParts
  <2>10. CASE e.stop
    <3>1. PICK x \in e.lo..e.hi : ~Priced(x)
      BY <2>7, <2>10 DEF Holds
    <3>2. x \in Spot..e.hi
      BY <2>3, <2>7, <2>9 DEF Holds
    <3> QED
      BY <2>8, <2>9, <3>1, <3>2 DEF Between
  <2>11. CASE e.hi - e.lo <= 1
    BY <2>3, <2>7, <2>8, <2>9, <2>11 DEF Holds
  <2> QED
    BY <2>7, <2>10, <2>11
<1>2. ASSUME s <= Spot, edges.down < s, t <= edges.down, s - t <= 65536
      PROVE  Bisect(s, t) \in Int /\ (Bisect(s, t) = edges.down \/ Between(Bisect(s, t), Spot))
  <2>1. ~(s < t) /\ t < s
    BY <1>2
  <2>2. PICK r : r = [lo |-> t, hi |-> s, stop |-> FALSE]
    OBVIOUS
  <2>3. PICK u \in BOOLEAN : u = FALSE
    OBVIOUS
  <2>4. r \in Brackets /\ r.lo = t /\ r.hi = s /\ ~r.stop
    BY <2>2 DEF Brackets
  <2>5. Holds(r, u) /\ r.hi - r.lo <= 65536
    BY <1>2, <2>1, <2>3, <2>4 DEF Holds
  <2>6. PICK e : e = Halved(r, u)
    OBVIOUS
  <2>7. e \in Brackets /\ Holds(e, u) /\ (e.stop \/ e.hi - e.lo <= 1)
    BY <2>4, <2>5, <2>6, HalvedIsEdge
  <2>8. Bisect(s, t) = e.lo
    <3>1. (s < t) = FALSE
      BY <2>1
    <3> QED BY <2>2, <2>3, <2>6, <3>1 DEF Bisect
  <2>9. e.lo \in Int /\ e.hi \in Int
    BY <2>7, BracketParts
  <2>10. CASE e.stop
    <3>1. PICK x \in e.lo..e.hi : ~Priced(x)
      BY <2>7, <2>10 DEF Holds
    <3>2. x \in e.lo..Spot
      BY <2>3, <2>7, <2>9 DEF Holds
    <3> QED
      BY <2>8, <2>9, <3>1, <3>2 DEF Between
  <2>11. CASE e.hi - e.lo <= 1
    BY <2>3, <2>7, <2>8, <2>9, <2>11 DEF Holds
  <2> QED
    BY <2>7, <2>10, <2>11
<1> QED
  BY <1>1, <1>2

LEMMA BisectTyped ==
  ASSUME NEW s \in Int, NEW t \in Int
  PROVE  Bisect(s, t) \in Int
<1>1. ASSUME NEW r \in Brackets, NEW u \in BOOLEAN PROVE Halved(r, u).lo \in Int /\ Halved(r, u).hi \in Int
  <2>1. Halved(r, u) \in Brackets
    <3>1. PICK v \in [0..Halvings -> Brackets] : Halved(r, u) = v[Halvings]
      BY HalvingRuns
    <3>2. Halvings \in 0..Halvings
      BY DEF Halvings
    <3> QED
      BY <3>1, <3>2
  <2> QED
    BY <2>1, BracketParts
<1>2. CASE s < t
  <2>1. PICK r : r = [lo |-> s, hi |-> t, stop |-> FALSE]
    OBVIOUS
  <2>2. r \in Brackets
    BY <2>1 DEF Brackets
  <2>3. Bisect(s, t) = Halved(r, TRUE).hi
    <3>1. (s < t) = TRUE
      BY <1>2
    <3> QED BY <2>1, <3>1 DEF Bisect
  <2> QED
    BY <1>1, <2>2, <2>3
<1>3. CASE ~(s < t)
  <2>1. PICK r : r = [lo |-> t, hi |-> s, stop |-> FALSE]
    OBVIOUS
  <2>2. r \in Brackets
    BY <2>1 DEF Brackets
  <2>3. Bisect(s, t) = Halved(r, FALSE).lo
    <3>1. (s < t) = FALSE
      BY <1>3
    <3> QED BY <2>1, <3>1 DEF Bisect
  <2> QED
    BY <1>1, <2>2, <2>3
<1> QED
  BY <1>2, <1>3

Probes == [hit : Int \cup {NoSpot}, reached : Int, safe : Int, over : BOOLEAN]

LEMMA ProbeParts ==
  ASSUME NEW r \in Probes
  PROVE  /\ r.hit \in Int \cup {NoSpot} /\ r.reached \in Int /\ r.safe \in Int /\ r.over \in BOOLEAN
  BY DEF Probes

\* A probe by its cases.
LEMMA ProbeIs ==
  ASSUME NEW r \in Probes, NEW f \in Int, NEW s, s = (Spot * f) \div 100
  PROVE  /\ r.over => Probe(r, f) = r
         /\ ~r.over /\ ~Priced(s) => Probe(r, f) = [r EXCEPT !.over = TRUE]
         /\ ~r.over /\ Priced(s) /\ Below(s) =>
              Probe(r, f) = [hit |-> Bisect(r.safe, s), reached |-> s, safe |-> r.safe, over |-> TRUE]
         /\ ~r.over /\ Priced(s) /\ ~Below(s) => Probe(r, f) = [r EXCEPT !.safe = s, !.reached = s]
  BY DEF Probe

LEMMA ProbeStays ==
  ASSUME NEW r \in Probes, NEW f \in Int
  PROVE  Probe(r, f) \in Probes
<1>1. PICK s \in Int : s = (Spot * f) \div 100
  BY SpotsAssumption
<1>2. [r EXCEPT !.over = TRUE] \in Probes
  BY DEF Probes
<1>3. [hit |-> Bisect(r.safe, s), reached |-> s, safe |-> r.safe, over |-> TRUE] \in Probes
  <2>1. Bisect(r.safe, s) \in Int
    BY BisectTyped, ProbeParts
  <2> QED
    BY <2>1 DEF Probes
<1>4. [r EXCEPT !.safe = s, !.reached = s] \in Probes
  BY DEF Probes
<1>5. Probe(r, f) \in {r, [r EXCEPT !.over = TRUE],
                       [hit |-> Bisect(r.safe, s), reached |-> s, safe |-> r.safe, over |-> TRUE],
                       [r EXCEPT !.safe = s, !.reached = s]}
  BY <1>1 DEF Probe
<1> QED
  BY <1>2, <1>3, <1>4, <1>5

NotBelow == [hit |-> NoSpot, reached |-> Spot, safe |-> Spot, over |-> FALSE]

LEMMA ProbeRuns ==
  ASSUME NEW n \in Nat, NEW xs \in [1..n -> Int]
  PROVE  \E v \in [0..n -> Probes] : /\ v[0] = NotBelow /\ \A k \in 1..n : v[k] = Probe(v[k - 1], xs[k])
                                     /\ Search(xs) = v[n]
<1> DEFINE F == [p \in Probes \X (1..n) |-> Probe(p[1], xs[p[2]])]
           Is(h) == h = [s \in SUBSET (DOMAIN xs) |-> IF s = {} THEN NotBelow ELSE Probe(h[s \ {Max(s)}], xs[Max(s)])]
           H == CHOOSE h : Is(h)
<1>0. DOMAIN xs = 1..n
  OBVIOUS
<1>1. \A a \in Probes, k \in 1..n : F[<<a, k>>] = Probe(a, xs[k])
  OBVIOUS
<1>11. F \in [Probes \X (1..n) -> Probes]
  <2> SUFFICES ASSUME NEW p \in Probes \X (1..n) PROVE Probe(p[1], xs[p[2]]) \in Probes
    OBVIOUS
  <2> QED
    BY ProbeStays
<1>10. NotBelow \in Probes
  BY SpotsAssumption DEF NotBelow, Probes
<1> HIDE DEF F
<1>12. \E g \in [SUBSET (1..n) -> Probes] : IsRun(g, F, NotBelow, n)
  BY <1>10, <1>11, RunExists
<1>2. PICK g \in [SUBSET (1..n) -> Probes] : IsRun(g, F, NotBelow, n)
  BY <1>12
<1>3. \A s \in SUBSET (1..n) : g[s] = IF s = {} THEN NotBelow ELSE Probe(g[s \ {Max(s)}], xs[Max(s)])
  <2> SUFFICES ASSUME NEW s \in SUBSET (1..n), s # {}
               PROVE  F[<<g[s \ {Max(s)}], Max(s)>>] = Probe(g[s \ {Max(s)}], xs[Max(s)])
    BY <1>2 DEF IsRun
  <2>1. Max(s) \in 1..n
    BY MaxIn
  <2>2. g[s \ {Max(s)}] \in Probes
    BY <1>2
  <2> QED
    BY <1>1, <2>1, <2>2
<1>4. Is(g)
  BY <1>0, <1>3
<1>5. Is(H)
  BY <1>4
<1>6. Search(xs) = H[1..n]
  BY <1>0 DEF Search, FoldLeft, MapThenFoldSet, NotBelow
<1> HIDE DEF H
<1>7. \A s \in SUBSET (1..n) : H[s] = IF s = {} THEN NotBelow ELSE Probe(H[s \ {Max(s)}], xs[Max(s)])
  BY <1>0, <1>5
<1> HIDE DEF Is
<1>80. H[{}] = NotBelow
  <2>1. {} \in SUBSET (1..n)
    OBVIOUS
  <2> QED BY <1>7, <2>1
<1>8. H[{}] = NotBelow /\ \A k \in 1..n : H[1..k] = Probe(H[1..(k - 1)], xs[k])
  <2> SUFFICES ASSUME NEW k \in 1..n PROVE H[1..k] = Probe(H[1..(k - 1)], xs[k])
    BY <1>80
  <2>1. 1..k \in SUBSET (1..n) /\ 1..k # {} /\ Max(1..k) = k /\ (1..k) \ {k} = 1..(k - 1)
    BY PrefixRun
  <2> QED
    BY <1>7, <2>1
<1>81. Follows(H, Probes, F, NotBelow, n)
  BY <1>1, <1>8 DEF Follows
<1>82. \E v \in [0..n -> Probes] : Passes(v, F, NotBelow, n) /\ v[n] = H[1..n]
  <2>1. Reaches(H[1..n], Probes, F, NotBelow, n)
    BY <1>10, <1>11, <1>81, RunPasses
  <2> QED
    BY <2>1 DEF Reaches
<1>9. PICK v \in [0..n -> Probes] : Passes(v, F, NotBelow, n) /\ v[n] = H[1..n]
  BY <1>82
<1>13. \A k \in 1..n : v[k] = Probe(v[k - 1], xs[k])
  <2> SUFFICES ASSUME NEW k \in 1..n PROVE v[k] = Probe(v[k - 1], xs[k])
    OBVIOUS
  <2>1. v[k - 1] \in Probes
    BY <1>9
  <2> QED
    BY <1>1, <1>9, <2>1 DEF Passes
<1> QED
  BY <1>6, <1>9, <1>13 DEF Passes

\* Today's price is priced and safe.
SafeToday == /\ edges \in [up : Int, down : Int] /\ Spot \in Nat /\ 1 <= Spot /\ Spot <= 131070
             /\ edges.down < Spot /\ Spot < edges.up /\ Priced(Spot)

\* How far a search has come, after the factor f.
Rises(r, f) ==
  /\ r.hit = NoSpot => Priced(r.reached) /\ Spot <= r.reached /\ r.reached < edges.up
  /\ r.hit # NoSpot => r.hit = edges.up \/ Between(Spot, r.hit)
  /\ ~r.over => r.hit = NoSpot /\ r.safe = r.reached /\ r.safe = (Spot * f) \div 100

Falls(r, f) ==
  /\ r.hit = NoSpot => Priced(r.reached) /\ r.reached <= Spot /\ edges.down < r.reached
  /\ r.hit # NoSpot => r.hit = edges.down \/ Between(r.hit, Spot)
  /\ ~r.over => r.hit = NoSpot /\ r.safe = r.reached /\ r.safe = (Spot * f) \div 100

\* Factors half of today's price apart are no more than sixteen halvings apart.
LEMMA StepNarrow ==
  ASSUME NEW a \in Nat, 1 <= a, a <= 131070, NEW f \in Int, NEW g \in Int, f < g, g <= f + 50
  PROVE  /\ (a * f) \div 100 \in Int /\ (a * g) \div 100 \in Int
         /\ (a * f) \div 100 <= (a * g) \div 100
         /\ (a * g) \div 100 - (a * f) \div 100 <= 65536
<1>1. PICK d \in Int : d = g - f
  OBVIOUS
<1>2. 1 <= d /\ d <= 50 /\ g = f + d
  BY <1>1
<1>3. PICK p \in Int : p = a * f
  OBVIOUS
<1>4. PICK q \in Int : q = a * d
  OBVIOUS
<1>5. PICK z \in Int : z = a * g
  OBVIOUS
<1>6. z = p + q
  BY <1>2, <1>3, <1>4, <1>5
<1>7. 0 <= q
  BY <1>2, <1>4
<1>8. q <= a * 50
  <2>1. PICK e \in Nat : e = 50 - d
    BY <1>2
  <2>2. 0 <= a * e
    OBVIOUS
  <2>3. a * 50 = q + a * e
    BY <1>4, <2>1
  <2>4. a * e \in Int
    OBVIOUS
  <2>5. PICK w \in Int : w = a * e
    BY <2>4
  <2> QED
    BY <2>2, <2>3, <2>5
<1>9. p \div 100 \in Int /\ z \div 100 \in Int /\ p \div 100 <= z \div 100 /\ z \div 100 - p \div 100 <= 65536
  <2>1. q <= 6553500
    BY <1>8
  <2> QED
    BY <1>6, <1>7, <2>1
<1> QED
  BY <1>3, <1>5, <1>9

LEMMA ProbeRises ==
  ASSUME SafeToday, NEW r \in Probes, NEW f \in Int, NEW g \in Int, f < g, g <= f + 50, Rises(r, f)
  PROVE  Rises(Probe(r, g), g)
<1>1. PICK s \in Int : s = (Spot * g) \div 100
  BY DEF SafeToday
<1>2. PICK t : t = Probe(r, g)
  OBVIOUS
<1>3. r.hit \in Int \cup {NoSpot} /\ r.reached \in Int /\ r.safe \in Int
  BY ProbeParts
<1>4. CASE r.over
  <2>1. t = r
    BY <1>1, <1>2, <1>4, ProbeIs
  <2> QED
    BY <1>2, <1>4, <2>1 DEF Rises
<1>5. CASE ~r.over
  <2>1. r.hit = NoSpot /\ r.safe = r.reached /\ Priced(r.reached) /\ Spot <= r.reached /\ r.reached < edges.up
    BY <1>5 DEF Rises
  <2>2. r.safe <= s /\ s - r.safe <= 65536
    BY <1>1, <1>5, StepNarrow DEF Rises, SafeToday
  <2>3. CASE ~Priced(s)
    <3>1. t = [r EXCEPT !.over = TRUE]
      BY <1>1, <1>2, <1>5, <2>3, ProbeIs
    <3>2. t.hit = r.hit /\ t.reached = r.reached /\ t.over
      BY <3>1 DEF Probes
    <3> QED
      BY <1>2, <2>1, <3>2 DEF Rises
  <2>4. CASE Priced(s) /\ Below(s)
    <3>1. t = [hit |-> Bisect(r.safe, s), reached |-> s, safe |-> r.safe, over |-> TRUE]
      BY <1>1, <1>2, <1>5, <2>4, ProbeIs
    <3>2. t.hit = Bisect(r.safe, s) /\ t.over
      BY <3>1
    <3>3. edges.up <= s
      BY <1>3, <2>1, <2>2, <2>4 DEF Below, SafeToday
    <3>4. t.hit \in Int /\ (t.hit = edges.up \/ Between(Spot, t.hit))
      BY <1>3, <2>1, <2>2, <3>2, <3>3, BisectIsEdge DEF SafeToday
    <3>5. t.hit # NoSpot
      BY <3>4, SpotsAssumption
    <3> QED
      BY <1>2, <3>2, <3>4, <3>5 DEF Rises
  <2>5. CASE Priced(s) /\ ~Below(s)
    <3>1. t = [r EXCEPT !.safe = s, !.reached = s]
      BY <1>1, <1>2, <1>5, <2>5 DEF Probe
    <3>2. t.hit = r.hit /\ t.reached = s /\ t.safe = s /\ t.over = r.over
      BY <3>1 DEF Probes
    <3>3. Spot <= s /\ s < edges.up
      BY <1>3, <2>1, <2>2, <2>5 DEF Below, SafeToday
    <3> QED
      BY <1>1, <1>2, <2>1, <2>5, <3>2, <3>3 DEF Rises
  <2> QED
    BY <2>3, <2>4, <2>5
<1> QED
  BY <1>4, <1>5

LEMMA ProbeFalls ==
  ASSUME SafeToday, NEW r \in Probes, NEW f \in Int, NEW g \in Int, g < f, f <= g + 50, Falls(r, f)
  PROVE  Falls(Probe(r, g), g)
<1>1. PICK s \in Int : s = (Spot * g) \div 100
  BY DEF SafeToday
<1>2. PICK t : t = Probe(r, g)
  OBVIOUS
<1>3. r.hit \in Int \cup {NoSpot} /\ r.reached \in Int /\ r.safe \in Int
  BY ProbeParts
<1>4. CASE r.over
  <2>1. t = r
    BY <1>1, <1>2, <1>4, ProbeIs
  <2> QED
    BY <1>2, <1>4, <2>1 DEF Falls
<1>5. CASE ~r.over
  <2>1. r.hit = NoSpot /\ r.safe = r.reached /\ Priced(r.reached) /\ r.reached <= Spot /\ edges.down < r.reached
    BY <1>5 DEF Falls
  <2>2. s <= r.safe /\ r.safe - s <= 65536
    BY <1>1, <1>5, StepNarrow DEF Falls, SafeToday
  <2>3. CASE ~Priced(s)
    <3>1. t = [r EXCEPT !.over = TRUE]
      BY <1>1, <1>2, <1>5, <2>3, ProbeIs
    <3>2. t.hit = r.hit /\ t.reached = r.reached /\ t.over
      BY <3>1 DEF Probes
    <3> QED
      BY <1>2, <2>1, <3>2 DEF Falls
  <2>4. CASE Priced(s) /\ Below(s)
    <3>1. t = [hit |-> Bisect(r.safe, s), reached |-> s, safe |-> r.safe, over |-> TRUE]
      BY <1>1, <1>2, <1>5, <2>4, ProbeIs
    <3>2. t.hit = Bisect(r.safe, s) /\ t.over
      BY <3>1
    <3>3. s <= edges.down
      BY <1>3, <2>1, <2>2, <2>4 DEF Below, SafeToday
    <3>4. t.hit \in Int /\ (t.hit = edges.down \/ Between(t.hit, Spot))
      BY <1>3, <2>1, <2>2, <3>2, <3>3, BisectIsEdge DEF SafeToday
    <3>5. t.hit # NoSpot
      BY <3>4, SpotsAssumption
    <3> QED
      BY <1>2, <3>2, <3>4, <3>5 DEF Falls
  <2>5. CASE Priced(s) /\ ~Below(s)
    <3>1. t = [r EXCEPT !.safe = s, !.reached = s]
      BY <1>1, <1>2, <1>5, <2>5 DEF Probe
    <3>2. t.hit = r.hit /\ t.reached = s /\ t.safe = s /\ t.over = r.over
      BY <3>1 DEF Probes
    <3>3. s <= Spot /\ edges.down < s
      BY <1>3, <2>1, <2>2, <2>5 DEF Below, SafeToday
    <3> QED
      BY <1>1, <1>2, <2>1, <2>5, <3>2, <3>3 DEF Falls
  <2> QED
    BY <2>3, <2>4, <2>5
<1> QED
  BY <1>4, <1>5

At(xs, k) == IF k = 0 THEN 100 ELSE xs[k]

LEMMA UpsRise ==
  /\ Ups \in [1..12 -> Int]
  /\ \A k \in 1..12 : At(Ups, k) \in Int /\ At(Ups, k - 1) < At(Ups, k) /\ At(Ups, k) <= At(Ups, k - 1) + 50
BY DEF Ups, At

LEMMA DownsFall ==
  /\ Downs \in [1..10 -> Int]
  /\ \A k \in 1..10 : At(Downs, k) \in Int /\ At(Downs, k) < At(Downs, k - 1) /\ At(Downs, k - 1) <= At(Downs, k) + 50
BY DEF Downs, At

LEMMA SearchRises ==
  ASSUME SafeToday
  PROVE  Search(Ups) \in Probes /\ Rises(Search(Ups), 300)
<1>1. PICK v \in [0..12 -> Probes] : v[0] = NotBelow /\ (\A k \in 1..12 : v[k] = Probe(v[k - 1], Ups[k])) /\ Search(Ups) = v[12]
  BY UpsRise, ProbeRuns
<1> DEFINE Wrong == {k \in 0..12 : ~Rises(v[k], At(Ups, k))}
<1>2. Rises(v[0], At(Ups, 0))
  <2>1. At(Ups, 0) = 100 /\ (Spot * 100) \div 100 = Spot
    BY DEF At, SafeToday
  <2> QED
    BY <1>1, <2>1 DEF Rises, NotBelow, SafeToday
<1>3. ASSUME NEW m \in Wrong, \A q \in Wrong : m <= q PROVE FALSE
  <2>1. m \in 1..12 /\ m - 1 \in 0..12 /\ ~Rises(v[m], At(Ups, m))
    BY <1>2
  <2>2. Rises(v[m - 1], At(Ups, m - 1))
    BY <1>3, <2>1
  <2>3. v[m - 1] \in Probes /\ At(Ups, m) \in Int /\ At(Ups, m - 1) \in Int /\ At(Ups, m) = Ups[m]
    BY <2>1, UpsRise DEF At
  <2>4. Rises(Probe(v[m - 1], At(Ups, m)), At(Ups, m))
    BY <2>1, <2>2, <2>3, UpsRise, ProbeRises
  <2> QED
    BY <1>1, <2>1, <2>3, <2>4
<1>4. \A k \in 0..12 : Rises(v[k], At(Ups, k))
  <2>1. Wrong \in SUBSET Nat
    OBVIOUS
  <2>2. Wrong = {}
    <3> HIDE DEF Wrong
    <3> QED BY <1>3, <2>1, LeastCount
  <2> QED BY <2>2
<1>5. At(Ups, 12) = 300
  BY DEF At, Ups
<1> HIDE DEF Wrong
<1> QED
  BY <1>1, <1>4, <1>5

LEMMA SearchFalls ==
  ASSUME SafeToday
  PROVE  Search(Downs) \in Probes /\ Falls(Search(Downs), 20)
<1>1. PICK v \in [0..10 -> Probes] : v[0] = NotBelow /\ (\A k \in 1..10 : v[k] = Probe(v[k - 1], Downs[k])) /\ Search(Downs) = v[10]
  BY DownsFall, ProbeRuns
<1> DEFINE Wrong == {k \in 0..10 : ~Falls(v[k], At(Downs, k))}
<1>2. Falls(v[0], At(Downs, 0))
  <2>1. At(Downs, 0) = 100 /\ (Spot * 100) \div 100 = Spot
    BY DEF At, SafeToday
  <2> QED
    BY <1>1, <2>1 DEF Falls, NotBelow, SafeToday
<1>3. ASSUME NEW m \in Wrong, \A q \in Wrong : m <= q PROVE FALSE
  <2>1. m \in 1..10 /\ m - 1 \in 0..10 /\ ~Falls(v[m], At(Downs, m))
    BY <1>2
  <2>2. Falls(v[m - 1], At(Downs, m - 1))
    BY <1>3, <2>1
  <2>3. v[m - 1] \in Probes /\ At(Downs, m) \in Int /\ At(Downs, m - 1) \in Int /\ At(Downs, m) = Downs[m]
    BY <2>1, DownsFall DEF At
  <2>4. Falls(Probe(v[m - 1], At(Downs, m)), At(Downs, m))
    BY <2>1, <2>2, <2>3, DownsFall, ProbeFalls
  <2> QED
    BY <1>1, <2>1, <2>3, <2>4
<1>4. \A k \in 0..10 : Falls(v[k], At(Downs, k))
  <2>1. Wrong \in SUBSET Nat
    OBVIOUS
  <2>2. Wrong = {}
    <3> HIDE DEF Wrong
    <3> QED BY <1>3, <2>1, LeastCount
  <2> QED BY <2>2
<1>5. At(Downs, 10) = 20
  BY DEF At, Downs
<1> HIDE DEF Wrong
<1> QED
  BY <1>1, <1>4, <1>5

SpotsTrue == SpotsAreEdges /\ SafeAsFarAsReached
SpotsInv == edges \in Edges /\ SpotsTrue

LEMMA SpotsStart ==
  ASSUME SpotsInit
  PROVE  SpotsInv
<1>1. ~Searched
  BY DEF SpotsInit, Searched, NotSearched
<1> QED
  BY <1>1 DEF SpotsInv, SpotsTrue, SpotsAreEdges, SafeAsFarAsReached, SpotsInit

LEMMA SpotsStep ==
  ASSUME SpotsInv, [Estimate]_spotVars
  PROVE  SpotsInv'
<1>1. CASE UNCHANGED spotVars
  BY <1>1 DEF spotVars, SpotsInv, SpotsTrue, SpotsAreEdges, SafeAsFarAsReached, Searched, Priced
<1>2. CASE Estimate
  <2>1. edges' = edges /\ priced' = priced /\ edges \in Edges
    BY <1>2 DEF Estimate, SpotsInv
  <2>2. CASE ~Priced(Spot) \/ Below(Spot)
    <3>1. found' \in {NotSearched, [NotSearched EXCEPT !.up = Spot, !.down = Spot]}
      BY <1>2, <2>2 DEF Estimate
    <3>2. ~Searched'
      <4>1. CASE found' = NotSearched
        <5>1. NotSearched.upTo = NoSpot
          BY DEF NotSearched
        <5> QED BY <4>1, <5>1 DEF Searched
      <4>2. CASE found' = [NotSearched EXCEPT !.up = Spot, !.down = Spot]
        <5>1. [NotSearched EXCEPT !.up = Spot, !.down = Spot].upTo = NoSpot
          BY DEF NotSearched
        <5> QED BY <4>2, <5>1 DEF Searched
      <4> QED BY <3>1, <4>1, <4>2
    <3> QED
      BY <2>1, <3>2 DEF SpotsInv, SpotsTrue, SpotsAreEdges, SafeAsFarAsReached
  <2>3. CASE Priced(Spot) /\ ~Below(Spot)
    <3>1. SafeToday
      BY <2>1, <2>3, SpotsAssumption DEF SafeToday, Below
    <3>2. PICK a \in Probes : a = Search(Ups) /\ Rises(a, 300)
      BY <3>1, SearchRises
    <3>3. PICK b \in Probes : b = Search(Downs) /\ Falls(b, 20)
      BY <3>1, SearchFalls
    <3>4. found' = [up |-> a.hit, down |-> b.hit, upTo |-> a.reached, downTo |-> b.reached]
      BY <1>2, <2>3, <3>2, <3>3 DEF Estimate
    <3>5. \A s : Priced(s)' = Priced(s)
      BY <2>1 DEF Priced
    <3>6. found'.up = a.hit /\ found'.down = b.hit /\ found'.upTo = a.reached /\ found'.downTo = b.reached
      BY <3>4
    <3>7. SpotsAreEdges'
      BY <2>1, <3>2, <3>3, <3>5, <3>6 DEF SpotsAreEdges, Rises, Falls, Between
    <3>8. SafeAsFarAsReached'
      <4>1. edges.up \in Int /\ edges.down \in Int /\ a.reached \in Int /\ b.reached \in Int
        BY <3>1, ProbeParts DEF SafeToday
      <4> QED
        BY <2>1, <3>2, <3>3, <3>5, <3>6, <4>1 DEF SafeAsFarAsReached, Rises, Falls
    <3> QED
      BY <2>1, <3>7, <3>8 DEF SpotsInv, SpotsTrue
  <2> QED
    BY <2>2, <2>3
<1> QED
  BY <1>1, <1>2

SpotsSpec == SpotsInit /\ [][Estimate]_spotVars

\* THEOREM.  A liquidation price that is shown is where the account falls below its
\* maintenance margin, or the edge of what can be priced; where none is shown the
\* account is safe as far as the search went.
THEOREM SpotsStayTrue == SpotsSpec => [](SpotsAreEdges /\ SafeAsFarAsReached)
<1>1. SpotsInv => SpotsAreEdges /\ SafeAsFarAsReached
  BY DEF SpotsInv, SpotsTrue
<1> QED BY <1>1, SpotsStart, SpotsStep, PTL DEF SpotsSpec

FiguresSpec == HistorySpec /\ SpotsSpec

\* THEOREM.  The figures of the app are right, in any order of trades, transfers,
\* settlements and queries and whatever part of its debt an account can pay: profit
\* and loss is what was paid and got, with debts in full, from the logs always and
\* from the indexer's records as long as no close shares a block with a settlement;
\* and the liquidation prices shown are those at which the account falls below.
THEOREM FiguresStayExact == FiguresSpec => []FiguresExact
<1>1. ProfitExact /\ SpotsInv => FiguresExact
  BY DEF FiguresExact, SpotsInv, SpotsTrue
<1> QED
  BY <1>1, ProfitStaysExact, SpotsStart, SpotsStep, PTL DEF FiguresSpec, SpotsSpec

-----------------------------------------------------------------------------
(* Orders                                                                  *)

LevelSet == [price : Nat \ {0}, size : Nat]
Filled == [qty : Int, left : Nat, rest : Seq(LevelSet)]

\* Rounded divisions by a positive number.
LEMMA QuotientBelow ==
  ASSUME NEW x \in Int, NEW d \in Nat \ {0}
  PROVE  (x \div d) \in Int /\ (x \div d) * d <= x /\ x < (x \div d) * d + d
<1>1. x \div d \in Int /\ x % d \in 0..(d - 1) /\ x = d * (x \div d) + (x % d)
  OBVIOUS
<1> QED
  BY <1>1

LEMMA UnitsCost ==
  ASSUME NEW left \in Nat, NEW p \in Nat \ {0}, NEW u \in Nat, u <= (left * 100) \div p
  PROVE  CeilDiv(u * p, 100) \in Int /\ CeilDiv(u * p, 100) <= left
<1>1. u * p <= left * 100
  <2> DEFINE q == (left * 100) \div p
  <2>1. q \in Int /\ q * p <= left * 100
    BY QuotientBelow
  <2>2. u * p <= q * p
    <3> HIDE DEF q
    <3>1. u <= q
      BY DEF q
    <3> QED BY <2>1, <3>1
  <2> HIDE DEF q
  <2>3. u * p \in Int /\ q * p \in Int
    BY <2>1
  <2> QED
    BY <2>1, <2>2, <2>3
<1>2. PICK x \in Nat : x = u * p
  OBVIOUS
<1> QED
  BY <1>1, <1>2 DEF CeilDiv

LEMMA TakeStays ==
  ASSUME NEW f \in Filled, NEW level \in LevelSet
  PROVE  TakeLevel(f, level) \in Filled
<1> DEFINE units == Smaller(level.size \div SizeUnit, (f.left * 100) \div level.price)
<1>1. level.size \in Nat /\ level.price \in Nat \ {0} /\ f.left \in Nat /\ f.qty \in Int /\ f.rest \in Seq(LevelSet)
  BY DEF LevelSet, Filled
<1>2. /\ level.size \div SizeUnit \in Nat /\ (level.size \div SizeUnit) * 10 <= level.size
      /\ (f.left * 100) \div level.price \in Nat
  <2>1. level.size \div SizeUnit \in Nat /\ (level.size \div SizeUnit) * 10 <= level.size
    BY <1>1 DEF SizeUnit
  <2>2. f.left * 100 \in Nat
    BY <1>1
  <2>3. PICK x \in Nat : x = f.left * 100
    BY <2>2
  <2>4. PICK d \in Nat \ {0} : d = level.price
    BY <1>1
  <2>5. x \div d \in Nat
    OBVIOUS
  <2> QED
    BY <2>1, <2>3, <2>4, <2>5
<1>3. units \in Nat /\ units * 10 <= level.size /\ units <= (f.left * 100) \div level.price
  BY <1>2, <1>1 DEF Smaller
<1> HIDE DEF units
<1>4. CeilDiv(units * level.price, 100) \in Int /\ CeilDiv(units * level.price, 100) <= f.left
  BY <1>1, <1>3, UnitsCost
<1>5. [level EXCEPT !.size = level.size - units * SizeUnit] \in LevelSet
  <2>1. PICK z \in Nat : z = level.size - units * SizeUnit
    BY <1>1, <1>3 DEF SizeUnit
  <2>2. [level EXCEPT !.size = z] \in LevelSet
    BY DEF LevelSet
  <2> QED
    BY <2>1, <2>2
<1>6. (IF units * SizeUnit = level.size THEN f.rest
       ELSE Append(f.rest, [level EXCEPT !.size = level.size - units * SizeUnit])) \in Seq(LevelSet)
  BY <1>1, <1>5
<1>7. f.qty + units * SizeUnit \in Int /\ f.left - CeilDiv(units * level.price, 100) \in Nat
  BY <1>1, <1>3, <1>4 DEF SizeUnit
<1>8. TakeLevel(f, level) =
        [qty |-> f.qty + units * SizeUnit, left |-> f.left - CeilDiv(units * level.price, 100),
         rest |-> IF units * SizeUnit = level.size THEN f.rest
                  ELSE Append(f.rest, [level EXCEPT !.size = level.size - units * SizeUnit])]
  BY DEF TakeLevel, units
<1> QED
  BY <1>6, <1>7, <1>8 DEF Filled

NotFilled(budget) == [qty |-> 0, left |-> budget, rest |-> <<>>]

\* A market buy never takes more than it was given, and leaves a book.
LEMMA BuyStays ==
  ASSUME NEW xs \in Seq(LevelSet), NEW budget \in Nat
  PROVE  FoldLeft(TakeLevel, NotFilled(budget), xs) \in Filled
<1> DEFINE n == Len(xs)
           F == [p \in Filled \X (1..n) |-> TakeLevel(p[1], xs[p[2]])]
           base == NotFilled(budget)
           Is(h) == h = [s \in SUBSET (DOMAIN xs) |-> IF s = {} THEN base ELSE TakeLevel(h[s \ {Max(s)}], xs[Max(s)])]
           H == CHOOSE h : Is(h)
<1>0. DOMAIN xs = 1..n /\ n \in Nat /\ (\A k \in 1..n : xs[k] \in LevelSet)
  OBVIOUS
<1>10. base \in Filled
  BY DEF Filled, NotFilled
<1> HIDE DEF n, base
<1>1. \A a \in Filled, k \in 1..n : F[<<a, k>>] = TakeLevel(a, xs[k])
  OBVIOUS
<1>11. F \in [Filled \X (1..n) -> Filled]
  <2> SUFFICES ASSUME NEW p \in Filled \X (1..n) PROVE TakeLevel(p[1], xs[p[2]]) \in Filled
    OBVIOUS
  <2> QED
    BY <1>0, TakeStays
<1> HIDE DEF F
<1>2. PICK g \in [SUBSET (1..n) -> Filled] : IsRun(g, F, base, n)
  BY <1>0, <1>10, <1>11, RunExists
<1>3. \A s \in SUBSET (1..n) : g[s] = IF s = {} THEN base ELSE TakeLevel(g[s \ {Max(s)}], xs[Max(s)])
  <2> SUFFICES ASSUME NEW s \in SUBSET (1..n), s # {}
               PROVE  F[<<g[s \ {Max(s)}], Max(s)>>] = TakeLevel(g[s \ {Max(s)}], xs[Max(s)])
    BY <1>2 DEF IsRun
  <2>1. Max(s) \in 1..n
    BY <1>0, MaxIn
  <2>2. g[s \ {Max(s)}] \in Filled
    BY <1>2
  <2> QED
    BY <1>1, <2>1, <2>2
<1>4. Is(g)
  BY <1>0, <1>3
<1>5. Is(H)
  BY <1>4
<1>6. FoldLeft(TakeLevel, base, xs) = H[1..n]
  BY <1>0 DEF FoldLeft, MapThenFoldSet
<1> HIDE DEF H
<1>7. \A s \in SUBSET (1..n) : H[s] = IF s = {} THEN base ELSE TakeLevel(H[s \ {Max(s)}], xs[Max(s)])
  BY <1>0, <1>5
<1> HIDE DEF Is
<1>8. H[{}] = base /\ \A k \in 1..n : H[1..k] = TakeLevel(H[1..(k - 1)], xs[k])
  BY <1>0, <1>7, PrefixRun
<1>81. Follows(H, Filled, F, base, n)
  BY <1>1, <1>8 DEF Follows
<1>82. Reaches(H[1..n], Filled, F, base, n)
  BY <1>0, <1>10, <1>11, <1>81, RunPasses
<1>9. H[1..n] \in Filled
  BY <1>0, <1>82 DEF Reaches
<1> QED
  BY <1>6, <1>9 DEF base

\* What a signed order is, and the books it meets.
TicketTyped ==
  /\ ticket.side \in {"buy", "sell"} => ticket.amount \in Nat
  /\ ticket.side = "buy" => ticket.maxBuyerFee \in Int

TicketInv ==
  /\ asks \in Seq(LevelSet) /\ bid \in [price : Nat, size : Nat] /\ buyerFee \in BuyerFees
  /\ page.fee \in Int
  /\ stray \in [cash : Int, options : Int]
  /\ TicketTyped /\ SignedLimitsHold

LEMMA BookFacts ==
  /\ Books \subseteq Seq(LevelSet) /\ Bids \subseteq [price : Nat, size : Nat]
  /\ Budgets \subseteq Nat /\ Quantities \subseteq Nat /\ BuyerFees \subseteq 0..999 /\ Slips \subseteq 10..1000
BY TicketAssumption DEF LevelSet

LEMMA TicketStarts ==
  ASSUME TicketInit
  PROVE  TicketInv
BY BookFacts DEF TicketInit, TicketInv, TicketTyped, SignedLimitsHold, NoPage, Nothing, NoTicket, NoOutcome

LEMMA SlipTyped ==
  ASSUME NEW x \in Int, NEW b \in Slips
  PROVE  WithSlip(x, b) \in Int
<1>1. b \in Int
  BY BookFacts
<1>2. x * (BPS + b) \in Int
  BY <1>1 DEF BPS
<1> QED
  BY <1>2 DEF WithSlip, BPS

LEMMA FeeTyped ==
  ASSUME NEW x \in Int, NEW b \in Int
  PROVE  FeeOn(x, b) \in Int
<1>1. x * b \in Int
  OBVIOUS
<1> QED
  BY <1>1 DEF FeeOn, CeilDiv, BPS

LEMMA FeeGrows ==
  ASSUME NEW x \in Int, NEW y \in Int, NEW b \in Nat, x <= y
  PROVE  FeeOn(x, b) <= FeeOn(y, b)
<1>1. x * b <= y * b /\ x * b \in Int /\ y * b \in Int
  OBVIOUS
<1>2. PICK u \in Int : u = x * b
  OBVIOUS
<1>3. PICK w \in Int : w = y * b
  OBVIOUS
<1>4. u <= w
  BY <1>1, <1>2, <1>3
<1>5. (u + 9999) \div 10000 <= (w + 9999) \div 10000
  BY <1>4
<1> QED
  BY <1>2, <1>3, <1>5 DEF FeeOn, CeilDiv, BPS

LEMMA SignKeeps ==
  ASSUME TicketInv, SignBuy \/ SignQuick \/ SignSell \/ SignLimit
  PROVE  TicketInv'
<1>1. /\ TicketTyped'
      /\ outcome' = NoOutcome /\ UNCHANGED <<asks, bid, buyerFee, page, stray>>
  <2>1. CASE SignBuy \/ SignQuick
    <3>1. PICK premiumIn \in Budgets, slip \in Slips :
            \E f \in Int : /\ f = FeeOn(premiumIn, page.fee)
                         /\ \E t : Signed(t) /\ t.side = "buy" /\ t.amount = premiumIn /\ t.maxBuyerFee = WithSlip(f, slip)
      <4>1. \A premiumIn \in Budgets : FeeOn(premiumIn, page.fee) \in Int
        <5> TAKE premiumIn \in Budgets
        <5>1. premiumIn \in Int /\ page.fee \in Int
          BY BookFacts DEF TicketInv
        <5> QED BY <5>1, FeeTyped
      <4>2. CASE SignBuy
        BY <4>1, <4>2 DEF SignBuy
      <4>3. CASE SignQuick
        BY <4>1, <4>3 DEF SignQuick
      <4> QED BY <2>1, <4>2, <4>3
    <3>2. PICK t : Signed(t) /\ t.side = "buy" /\ t.amount \in Nat /\ t.maxBuyerFee \in Int
      <4>1. PICK f \in Int : \E t : Signed(t) /\ t.side = "buy" /\ t.amount = premiumIn /\ t.maxBuyerFee = WithSlip(f, slip)
        BY <3>1
      <4>2. WithSlip(f, slip) \in Int /\ premiumIn \in Nat
        BY BookFacts, SlipTyped
      <4> QED BY <4>1, <4>2
    <3> QED
      BY <3>2 DEF Signed, TicketTyped
  <2>2. CASE SignSell
    <3>1. \E t : Signed(t) /\ t.side = "sell" /\ t.amount \in Nat
      BY <2>2, BookFacts DEF SignSell
    <3> QED
      BY <3>1 DEF Signed, TicketTyped
  <2>3. CASE SignLimit
    <3>1. \E t : Signed(t) /\ t.side = "limit"
      BY <2>3 DEF SignLimit
    <3> QED
      BY <3>1 DEF Signed, TicketTyped
  <2> QED
    BY <2>1, <2>2, <2>3
<1> QED
  BY <1>1 DEF TicketInv, SignedLimitsHold, NoOutcome

LEMMA RevertKeeps ==
  ASSUME TicketInv, Reverted
  PROVE  TicketInv'
BY DEF TicketInv, TicketTyped, Reverted, Ended, SignedLimitsHold, NoTicket

LEMMA BuyKept ==
  ASSUME TicketInv, BuyThroughVenue
  PROVE  TicketInv'
<1> DEFINE f == FoldLeft(TakeLevel, NotFilled(ticket.amount), asks)
           kuru == MarketBuy(ticket.amount)
           bought == ReceivedBy(stray.options + kuru.out, stray.options)
           unspent == ReceivedBy(stray.cash + kuru.back, stray.cash)
           spent == ticket.amount - unspent
           fee == FeeOn(spent, buyerFee)
<1>1. ticket.side = "buy" /\ ticket.amount \in Nat /\ ticket.maxBuyerFee \in Int /\ buyerFee \in Nat
      /\ asks \in Seq(LevelSet) /\ stray.cash \in Int
  BY BookFacts DEF TicketInv, TicketTyped, BuyThroughVenue
<1>2. f \in Filled
  BY <1>1, BuyStays
<1>3. kuru.back = f.left /\ kuru.rest = f.rest /\ f.left \in Nat /\ f.rest \in Seq(LevelSet)
  <2>1. f.left \in Nat /\ f.rest \in Seq(LevelSet)
    BY <1>2 DEF Filled
  <2>2. kuru = [out |-> f.qty - CeilDiv(f.qty * TakerFee, BPS), back |-> f.left, rest |-> f.rest]
    BY DEF MarketBuy, NotFilled
  <2> QED BY <2>1, <2>2
<1> HIDE DEF f
<1>4. spent \in Int /\ spent <= ticket.amount
  BY <1>1, <1>3 DEF ReceivedBy
<1>5. CASE Reverted
  BY <1>5, RevertKeeps
<1>6. CASE ~Reverted
  <2>1. /\ FeeOn(ticket.amount, buyerFee) <= ticket.maxBuyerFee /\ EnoughOut(bought)
        /\ asks' = kuru.rest
        /\ Ended([side |-> "buy", fresh |-> Fresh, landed |-> TRUE, got |-> bought,
                  least |-> ticket.limit, paid |-> spent + fee, most |-> ticket.amount + ticket.maxBuyerFee])
        /\ UNCHANGED <<bid, buyerFee, page, stray>>
    <3> HIDE DEF kuru
    <3> QED BY <1>6 DEF BuyThroughVenue, kuru
  <2> HIDE DEF kuru, bought, spent
  <2>2. fee <= FeeOn(ticket.amount, buyerFee) /\ fee \in Int /\ FeeOn(ticket.amount, buyerFee) \in Int
    <3>1. ticket.amount \in Int /\ buyerFee \in Int
      BY <1>1
    <3>2. fee \in Int /\ FeeOn(ticket.amount, buyerFee) \in Int
      BY <1>4, <3>1, FeeTyped
    <3>3. fee <= FeeOn(ticket.amount, buyerFee)
      BY <1>1, <1>4, <3>1, FeeGrows
    <3> HIDE DEF fee
    <3> QED BY <3>2, <3>3
  <2>3. spent + fee <= ticket.amount + ticket.maxBuyerFee
    <3> HIDE DEF fee
    <3> QED BY <1>1, <1>4, <2>1, <2>2
  <2>4. bought >= ticket.limit
    BY <2>1 DEF EnoughOut
  <2> HIDE DEF fee
  <2>5. SignedLimitsHold' /\ TicketTyped'
    BY <2>1, <2>3, <2>4 DEF Ended, SignedLimitsHold, TicketTyped, NoTicket
  <2> QED
    BY <1>3, <2>1, <2>5 DEF TicketInv
<1> QED
  BY <1>5, <1>6

LEMMA SellKept ==
  ASSUME TicketInv, SellThroughVenue
  PROVE  TicketInv'
<1> DEFINE kuru == MarketSell(ticket.amount)
           proceeds == ReceivedBy(stray.cash + kuru.out, stray.cash)
           unsold == ReceivedBy(stray.options + ticket.amount - kuru.sold, stray.options)
<1>1. ticket.side = "sell" /\ ticket.amount \in Nat /\ bid \in [price : Nat, size : Nat] /\ stray.options \in Int
  BY DEF TicketInv, TicketTyped, SellThroughVenue
<1>2. kuru.sold \in Nat /\ kuru.sold <= ticket.amount /\ kuru.sold <= bid.size
  <2>1. kuru.sold = Smaller((ticket.amount \div SizeUnit) * SizeUnit, bid.size)
    BY DEF MarketSell
  <2>2. (ticket.amount \div SizeUnit) * SizeUnit \in Nat /\ (ticket.amount \div SizeUnit) * SizeUnit <= ticket.amount
    BY <1>1 DEF SizeUnit
  <2>3. bid.size \in Nat
    BY <1>1
  <2> HIDE DEF kuru
  <2> QED BY <1>1, <2>1, <2>2, <2>3 DEF Smaller
<1>5. CASE Reverted
  BY <1>5, RevertKeeps
<1>6. CASE ~Reverted
  <2>1. /\ EnoughOut(proceeds)
        /\ bid' = [bid EXCEPT !.size = bid.size - kuru.sold]
        /\ Ended([side |-> "sell", fresh |-> Fresh, landed |-> TRUE, got |-> proceeds,
                  least |-> ticket.limit, paid |-> ticket.amount - unsold, most |-> ticket.amount])
        /\ UNCHANGED <<asks, buyerFee, page, stray>>
    <3> HIDE DEF kuru
    <3> QED BY <1>6 DEF SellThroughVenue, kuru
  <2> HIDE DEF kuru
  <2>2. ticket.amount - unsold <= ticket.amount
    BY <1>1, <1>2 DEF ReceivedBy
  <2>3. proceeds >= ticket.limit
    BY <2>1 DEF EnoughOut
  <2>4. bid' \in [price : Nat, size : Nat]
    <3>1. PICK z \in Nat : z = bid.size - kuru.sold
      BY <1>1, <1>2
    <3> QED BY <1>1, <2>1, <3>1
  <2> HIDE DEF unsold, proceeds
  <2>5. SignedLimitsHold' /\ TicketTyped'
    BY <2>1, <2>2, <2>3 DEF Ended, SignedLimitsHold, TicketTyped, NoTicket
  <2> QED
    BY <2>1, <2>4, <2>5 DEF TicketInv
<1> QED
  BY <1>5, <1>6

LEMMA OtherStepsKeepTicket ==
  ASSUME TicketInv, ReadBook \/ PlaceLimit \/ MoveBook \/ SetFee \/ Donate \/ WithdrawKuru
  PROVE  TicketInv'
<1>1. CASE ReadBook
  BY <1>1, BookFacts DEF ReadBook, TicketInv, TicketTyped, SignedLimitsHold
<1>2. CASE PlaceLimit
  BY <1>2 DEF PlaceLimit, Ended, TicketInv, TicketTyped, SignedLimitsHold, NoTicket
<1>3. CASE MoveBook
  BY <1>3, BookFacts DEF MoveBook, TicketInv, TicketTyped, SignedLimitsHold
<1>4. CASE SetFee
  BY <1>4 DEF SetFee, TicketInv, TicketTyped, SignedLimitsHold
<1>5. CASE Donate
  <2>1. stray' \in [cash : Int, options : Int]
    BY <1>5 DEF Donate, TicketInv
  <2> QED BY <1>5, <2>1 DEF Donate, TicketInv, TicketTyped, SignedLimitsHold
<1>6. CASE WithdrawKuru
  BY <1>6 DEF WithdrawKuru, TicketInv, TicketTyped, SignedLimitsHold
<1> QED
  BY <1>1, <1>2, <1>3, <1>4, <1>5, <1>6

TicketSpec == TicketInit /\ [][TicketNext]_ticketVars

\* THEOREM.  Whatever happens to the book and the fees between the page's read and
\* the order, a buy that goes through costs at most the budget and the largest fee
\* signed and brings the least quantity signed, and a sale brings the least proceeds
\* for at most the options given.
THEOREM SignedLimitsAreKept == TicketSpec => []SignedLimitsHold
<1>1. TicketInv /\ UNCHANGED ticketVars => TicketInv'
  BY DEF ticketVars, TicketInv, TicketTyped, SignedLimitsHold
<1>2. TicketInv /\ TicketNext => TicketInv'
  BY SignKeeps, BuyKept, SellKept, OtherStepsKeepTicket DEF TicketNext
<1>3. TicketInv => SignedLimitsHold
  BY DEF TicketInv
<1> QED
  BY <1>1, <1>2, <1>3, TicketStarts, PTL DEF TicketSpec

\* What the page had the user sign: a sale against the best bid it had read, and an
\* order for Kuru with the deposit that its funds there lacked.
SaleOf(t) ==
  LET gross == (t.amount * t.read.bid.price) \div Option
      fee == QuoteSell(gross)
  IN \E slip \in Slips : t.limit = LessSlip(gross - fee, slip) /\ t.maxVenueFee = WithSlip(fee, slip)

LimitOf(t) ==
  /\ t.price \in Nat /\ t.size \in Nat /\ t.deposit \in [cash : Nat, options : Nat]
  /\ IF t.buying THEN t.deposit.cash = Missing(QuoteNeeded(t.price, t.size), t.read.onKuru.cash)
     ELSE t.deposit.options >= Missing(t.size * SizeUnit, t.read.onKuru.options)

FreshInv ==
  /\ TicketInv
  /\ cash \in Int /\ options \in Int /\ onKuru \in [cash : Nat, options : Nat]
  /\ page.bid \in [price : Nat, size : Nat] /\ page.onKuru \in [cash : Nat, options : Nat]
  /\ ticket.side = "sell" => ticket.amount <= options /\ SaleOf(ticket)
  /\ ticket.side = "limit" => LimitOf(ticket) /\ ticket.deposit.cash <= cash /\ ticket.deposit.options <= options
  /\ outcome.side # "buy" => FreshOrdersLand

\* Products and rounded quotients, with the operands named.
LEMMA CeilIs ==
  ASSUME NEW x \in Nat, NEW d \in Nat \ {0}
  PROVE  CeilDiv(x, d) \in Nat /\ CeilDiv(x, d) * d >= x /\ CeilDiv(x, d) * d < x + d
<1> DEFINE q == (x + d - 1) \div d
<1>1. x + d - 1 \in Int
  OBVIOUS
<1>2. PICK y \in Int : y = x + d - 1
  BY <1>1
<1>3. (y \div d) \in Int /\ (y \div d) * d <= y /\ y < (y \div d) * d + d
  BY <1>2, QuotientBelow
<1>4. q = y \div d
  BY <1>2
<1>5. PICK k \in Int : k = q
  BY <1>3, <1>4
<1>6. PICK kd \in Int : kd = k * d
  OBVIOUS
<1>7. kd <= y /\ y < kd + d
  BY <1>3, <1>4, <1>5, <1>6
<1>8. kd >= x /\ kd < x + d
  BY <1>2, <1>7
<1>9. k \in Nat
  <2> SUFFICES ASSUME k < 0 PROVE FALSE
    OBVIOUS
  <2>1. k <= 0 - 1
    OBVIOUS
  <2>2. k * d <= (0 - 1) * d
    BY <2>1
  <2>3. (0 - 1) * d < 0
    OBVIOUS
  <2> QED BY <2>2, <2>3, <1>6, <1>8
<1> QED
  BY <1>5, <1>6, <1>8, <1>9 DEF CeilDiv

\* A larger dividend, a smaller divisor.
LEMMA CeilGrows ==
  ASSUME NEW x \in Nat, NEW y \in Nat, x <= y, NEW d \in Nat \ {0}, NEW e \in Nat \ {0}, e <= d
  PROVE  CeilDiv(x, d) <= CeilDiv(y, e)
<1>1. PICK a \in Nat : a = CeilDiv(x, d) /\ a * d < x + d
  BY CeilIs
<1>2. PICK b \in Nat : b = CeilDiv(y, e) /\ b * e >= y
  BY CeilIs
<1> SUFFICES ASSUME a > b PROVE FALSE
  BY <1>1, <1>2
<1>3. a >= b + 1
  OBVIOUS
<1>4. a * d >= (b + 1) * d
  BY <1>3
<1>5. (b + 1) * d = b * d + d
  OBVIOUS
<1>6. b * d >= b * e
  OBVIOUS
<1>7. a * d \in Int /\ b * d \in Int /\ b * e \in Int
  OBVIOUS
<1> QED
  BY <1>1, <1>2, <1>4, <1>5, <1>6, <1>7

\* What a fresh sale brings is what was signed.
LEMMA SaleLands ==
  ASSUME NEW gross \in Nat, NEW slip \in Slips,
         NEW out \in Int, out = gross - CeilDiv(gross * TakerFee, BPS)
  PROVE  /\ out >= LessSlip(gross - QuoteSell(gross), slip)
         /\ QuoteSell(out) <= WithSlip(QuoteSell(gross), slip)
<1>1. TakerFee \in Nat /\ TakerFee <= 999 /\ slip \in Nat /\ slip >= 10 /\ slip <= 1000
  BY TicketAssumption
<1>2. PICK d \in Nat \ {0} : d = BPS - TakerFee /\ d <= BPS
  BY <1>1 DEF BPS
<1>3. gross * TakerFee \in Nat
  BY <1>1
<1>4. PICK p \in Nat : p = gross * TakerFee
  BY <1>3
<1>5. BPS \in Nat \ {0} /\ BPS = 10000
  BY DEF BPS
<1>6. PICK c \in Nat : c = CeilDiv(p, BPS) /\ c * BPS < p + BPS
  <2>1. PICK b \in Nat \ {0} : b = BPS
    BY <1>5
  <2>2. CeilDiv(p, b) \in Nat /\ CeilDiv(p, b) * b < p + b
    BY CeilIs
  <2> QED BY <2>1, <2>2
<1>7. PICK f \in Nat : f = CeilDiv(p, d)
  BY <1>2, CeilIs
<1>8. c <= f
  <2>1. PICK b \in Nat \ {0} : b = BPS
    BY <1>5
  <2>2. CeilDiv(p, b) <= CeilDiv(p, d)
    BY <1>2, <2>1, CeilGrows
  <2> QED BY <1>6, <1>7, <2>1, <2>2
<1>9. QuoteSell(gross) = f
  BY <1>2, <1>4, <1>7 DEF QuoteSell
<1>10. out = gross - c
  BY <1>4, <1>6
<1>11. p <= gross * BPS
  BY <1>1, <1>4, <1>5
<1>12. out >= 0
  <2>1. c * BPS < gross * BPS + BPS
    BY <1>5, <1>6, <1>11
  <2> QED BY <1>5, <1>10, <2>1
<1>13. out >= LessSlip(gross - f, slip)
  <2>1. PICK y \in Int : y = gross - f
    OBVIOUS
  <2>2. PICK m \in Nat : m = 10000 - slip
    BY <1>1
  <2>3. PICK z \in Int : z = y * m
    OBVIOUS
  <2>4. LessSlip(gross - f, slip) = z \div 10000
    BY <2>1, <2>2, <2>3 DEF LessSlip, BPS
  <2>5. CASE y >= 0
    <3>1. y * m <= y * 10000
      BY <1>1, <2>2, <2>5
    <3>2. z <= y * 10000
      BY <2>3, <3>1
    <3>3. z \div 10000 <= y
      BY <3>2
    <3> QED BY <1>8, <1>10, <2>1, <2>4, <3>3
  <2>6. CASE y < 0
    <3>1. y * m <= 0
      BY <2>2, <2>6
    <3>2. z <= 0
      BY <2>3, <3>1
    <3>3. z \div 10000 <= 0
      BY <3>2
    <3> QED BY <1>12, <2>4, <3>3
  <2> QED BY <2>5, <2>6
<1>14. QuoteSell(out) <= f
  <2>1. PICK o \in Nat : o = out
    BY <1>12
  <2>2. o * TakerFee <= gross * TakerFee /\ o * TakerFee \in Nat
    BY <1>1, <1>10, <2>1
  <2>3. PICK r \in Nat : r = o * TakerFee
    BY <2>2
  <2>4. r <= p
    BY <1>4, <2>2, <2>3
  <2>5. CeilDiv(r, d) <= CeilDiv(p, d)
    BY <1>2, <2>4, CeilGrows
  <2> QED BY <1>2, <1>7, <2>1, <2>3, <2>5 DEF QuoteSell
<1>15. f <= WithSlip(f, slip)
  <2>1. PICK m \in Nat : m = 10000 + slip
    BY <1>1
  <2>2. f * m >= f * 10000
    BY <1>1, <2>1
  <2>3. PICK z \in Nat : z = f * m
    OBVIOUS
  <2>4. z \div 10000 >= f
    BY <2>2, <2>3
  <2>5. WithSlip(f, slip) = z \div 10000 + 1
    BY <2>1, <2>3 DEF WithSlip, BPS
  <2> QED BY <2>4, <2>5
<1>16. QuoteSell(out) \in Int /\ WithSlip(f, slip) \in Int
  <2>1. PICK o \in Nat : o = out
    BY <1>12
  <2>2. o * TakerFee \in Nat
    BY <1>1, <2>1
  <2>3. PICK r \in Nat : r = o * TakerFee
    BY <2>2
  <2>4. CeilDiv(r, d) \in Nat
    BY <1>2, CeilIs
  <2> QED BY <1>2, <2>1, <2>3, <2>4, SlipTyped DEF QuoteSell
<1> QED
  BY <1>9, <1>13, <1>14, <1>15, <1>16
LEMMA FreshStarts ==
  ASSUME TicketInit
  PROVE  FreshInv
BY TicketStarts, BookFacts DEF TicketInit, FreshInv, NoPage, Nothing, NoTicket, NoOutcome, FreshOrdersLand, Refused

\* Only a sale and an order for Kuru are signed by these.
LEMMA OthersSigned ==
  ASSUME FreshInv, SignBuy \/ SignQuick
  PROVE  FreshInv'
<1>1. \E t : t.side = "buy" /\ Signed(t)
  BY DEF SignBuy, SignQuick
<1>2. TicketInv'
  BY SignKeeps DEF FreshInv
<1> QED
  BY <1>1, <1>2 DEF FreshInv, Signed, NoOutcome, FreshOrdersLand, Refused

LEMMA SaleSigned ==
  ASSUME FreshInv, SignSell
  PROVE  FreshInv'
<1>1. PICK t : Signed(t) /\ t.side = "sell" /\ t.amount <= options /\ SaleOf(t)
  <2>1. PICK qty \in Quantities, slip \in Slips :
          LET gross == (qty * page.bid.price) \div Option
              fee == QuoteSell(gross)
          IN /\ qty <= options
             /\ Signed([side |-> "sell", amount |-> qty, limit |-> LessSlip(gross - fee, slip),
                        maxVenueFee |-> WithSlip(fee, slip), read |-> page])
    BY DEF SignSell
  <2> DEFINE t == [side |-> "sell", amount |-> qty,
                   limit |-> LessSlip((qty * page.bid.price) \div Option - QuoteSell((qty * page.bid.price) \div Option), slip),
                   maxVenueFee |-> WithSlip(QuoteSell((qty * page.bid.price) \div Option), slip), read |-> page]
  <2>2. Signed(t) /\ qty <= options
    BY <2>1
  <2>3. SaleOf(t)
    BY DEF SaleOf
  <2> QED BY <2>2, <2>3
<1>2. TicketInv'
  BY SignKeeps DEF FreshInv
<1>3. ticket' = t /\ outcome' = NoOutcome
      /\ UNCHANGED <<cash, options, onKuru, page>>
  BY <1>1 DEF Signed
<1>4. SaleOf(ticket)'
  BY <1>1, <1>3 DEF SaleOf
<1> QED
  BY <1>1, <1>2, <1>3, <1>4 DEF FreshInv, NoOutcome, FreshOrdersLand, Refused

LEMMA LimitSigned ==
  ASSUME FreshInv, SignLimit
  PROVE  FreshInv'
<1>1. PICK t : Signed(t) /\ t.side = "limit" /\ LimitOf(t) /\ t.deposit.cash <= cash /\ t.deposit.options <= options
  <2>1. PICK qty \in Quantities, p \in LimitPrices, buying \in BOOLEAN :
          LET onTick == (p \div Tick) * Tick
              size == qty \div SizeUnit
              missing == IF buying THEN [Nothing EXCEPT !.cash = Missing(QuoteNeeded(onTick, size), page.onKuru.cash)]
                         ELSE [Nothing EXCEPT !.options = Missing(qty, page.onKuru.options)]
          IN /\ onTick > 0 /\ size > 0 /\ missing.cash <= cash /\ missing.options <= options
             /\ Signed([side |-> "limit", buying |-> buying, price |-> onTick, size |-> size,
                        deposit |-> missing, read |-> page])
    BY DEF SignLimit
  <2> DEFINE onTick == (p \div Tick) * Tick
             size == qty \div SizeUnit
             missing == IF buying THEN [Nothing EXCEPT !.cash = Missing(QuoteNeeded(onTick, size), page.onKuru.cash)]
                        ELSE [Nothing EXCEPT !.options = Missing(qty, page.onKuru.options)]
             t == [side |-> "limit", buying |-> buying, price |-> onTick, size |-> size, deposit |-> missing, read |-> page]
  <2>2. Signed(t) /\ onTick > 0 /\ size > 0 /\ missing.cash <= cash /\ missing.options <= options
    BY <2>1
  <2>3. qty \in Nat /\ page.onKuru \in [cash : Nat, options : Nat]
    BY BookFacts DEF FreshInv
  <2>4. onTick \in Int /\ size \in Nat /\ size * SizeUnit <= qty /\ size * SizeUnit \in Nat
    <3>1. p \in Int
      BY TicketAssumption
    <3> QED BY <2>3, <3>1 DEF Tick, SizeUnit
  <2> HIDE DEF onTick, size
  <2>5. QuoteNeeded(onTick, size) \in Nat
    <3>1. PICK z \in Nat : z = onTick * size * SizeUnit
      <4>1. PICK a \in Nat : a = onTick
        BY <2>2, <2>4
      <4>2. PICK b \in Nat : b = size
        BY <2>4
      <4>3. a * b \in Nat
        OBVIOUS
      <4>4. a * b * 10 \in Nat
        BY <4>3
      <4> QED BY <4>1, <4>2, <4>4 DEF SizeUnit
    <3>2. z \div 1000 + 1 \in Nat
      OBVIOUS
    <3> QED BY <3>1, <3>2 DEF QuoteNeeded, Option
  <2>6. missing \in [cash : Nat, options : Nat]
        /\ IF buying THEN missing.cash = Missing(QuoteNeeded(onTick, size), page.onKuru.cash)
           ELSE missing.options >= Missing(size * SizeUnit, page.onKuru.options)
    BY <2>3, <2>4, <2>5 DEF Missing, Nothing
  <2> HIDE DEF missing
  <2>7. LimitOf(t)
    BY <2>2, <2>4, <2>6 DEF LimitOf
  <2> QED BY <2>2, <2>7
<1>2. TicketInv'
  BY SignKeeps DEF FreshInv
<1>3. ticket' = t /\ outcome' = NoOutcome
      /\ UNCHANGED <<cash, options, onKuru, page>>
  BY <1>1 DEF Signed
<1>4. LimitOf(ticket)'
  BY <1>1, <1>3 DEF LimitOf
<1> QED
  BY <1>1, <1>2, <1>3, <1>4 DEF FreshInv, NoOutcome, FreshOrdersLand, Refused

LEMMA CeilTyped ==
  ASSUME NEW x \in Int, NEW b \in Int
  PROVE  CeilDiv(x * b, BPS) \in Int
<1>1. PICK y \in Int : y = x * b
  OBVIOUS
<1> QED
  BY <1>1 DEF CeilDiv, BPS

LEMMA BuyEnds ==
  ASSUME FreshInv, BuyThroughVenue
  PROVE  FreshInv'
<1>1. TicketInv'
  BY BuyKept DEF FreshInv
<1>2. cash' \in Int /\ options' \in Int
  <2> DEFINE f == FoldLeft(TakeLevel, NotFilled(ticket.amount), asks)
             kuru == MarketBuy(ticket.amount)
             bought == ReceivedBy(stray.options + kuru.out, stray.options)
             unspent == ReceivedBy(stray.cash + kuru.back, stray.cash)
             spent == ticket.amount - unspent
             fee == FeeOn(spent, buyerFee)
  <2>1. /\ ticket.amount \in Nat /\ asks \in Seq(LevelSet) /\ stray \in [cash : Int, options : Int]
        /\ cash \in Int /\ options \in Int /\ buyerFee \in Int /\ TakerFee \in Int
    BY TicketAssumption DEF FreshInv, TicketInv, TicketTyped, BuyThroughVenue
  <2>2. f \in Filled
    BY <2>1, BuyStays
  <2>3. f.qty \in Int /\ f.left \in Int
    BY <2>2 DEF Filled
  <2>4. kuru.out = f.qty - CeilDiv(f.qty * TakerFee, BPS) /\ kuru.back = f.left
    BY DEF MarketBuy, NotFilled
  <2> HIDE DEF f
  <2>5. CeilDiv(f.qty * TakerFee, BPS) \in Int
    BY <2>1, <2>3, CeilTyped
  <2>6. kuru.out \in Int /\ kuru.back \in Int
    BY <2>3, <2>4, <2>5
  <2>7. \/ UNCHANGED <<cash, options>>
        \/ cash' = cash - spent - fee /\ options' = options + bought
    <3> HIDE DEF kuru
    <3> QED BY DEF BuyThroughVenue, Reverted, kuru
  <2> HIDE DEF kuru
  <2>8. bought \in Int /\ spent \in Int
    BY <2>1, <2>6 DEF ReceivedBy
  <2> HIDE DEF spent, bought
  <2>9. fee \in Int
    BY <2>1, <2>8, FeeTyped
  <2> HIDE DEF fee
  <2> QED BY <2>1, <2>7, <2>8, <2>9
<1>3. ticket' = NoTicket /\ outcome'.side = "buy" /\ UNCHANGED <<onKuru, page>>
  <2>1. ticket.side = "buy" /\ ticket' = NoTicket /\ UNCHANGED <<onKuru, page>>
    BY DEF BuyThroughVenue, Reverted, Ended
  <2>2. CASE Reverted
    BY <2>1, <2>2 DEF Reverted, Ended
  <2>3. CASE ~Reverted
    <3>1. \E g, l, p, m : Ended([side |-> "buy", fresh |-> Fresh, landed |-> TRUE, got |-> g, least |-> l, paid |-> p, most |-> m])
      BY <2>3 DEF BuyThroughVenue
    <3> QED BY <3>1, <2>1 DEF Ended
  <2> QED BY <2>2, <2>3
<1> QED
  BY <1>1, <1>2, <1>3 DEF FreshInv, NoTicket

\* A fresh sale that the best bid takes passes every check of the router.
LEMMA SaleEnds ==
  ASSUME FreshInv, SellThroughVenue
  PROVE  FreshInv'
<1> DEFINE kuru == MarketSell(ticket.amount)
           proceeds == ReceivedBy(stray.cash + kuru.out, stray.cash)
           unsold == ReceivedBy(stray.options + ticket.amount - kuru.sold, stray.options)
           ok == /\ options >= ticket.amount /\ EnoughOut(proceeds)
                 /\ QuoteSell(proceeds) <= ticket.maxVenueFee
                 /\ RequireEmpty(stray.cash + kuru.out - proceeds,
                                 stray.options + ticket.amount - kuru.sold - unsold)
<1>1. /\ ticket.side = "sell" /\ ticket.amount \in Nat /\ bid \in [price : Nat, size : Nat]
      /\ stray \in [cash : Int, options : Int] /\ cash \in Int /\ options \in Int /\ TakerFee \in Int
      /\ ticket.amount <= options /\ SaleOf(ticket)
  <2>1. ticket.side = "sell"
    BY DEF SellThroughVenue
  <2>2. TakerFee \in Int
    BY TicketAssumption
  <2> HIDE DEF ok
  <2> QED BY <2>1, <2>2 DEF FreshInv, TicketInv, TicketTyped
<1>2. TicketInv'
  BY SellKept DEF FreshInv
<1>3. PICK gross \in Nat : gross = (kuru.sold * bid.price) \div Option
  <2>1. kuru.sold \in Nat
    <3>1. kuru.sold = Smaller((ticket.amount \div SizeUnit) * SizeUnit, bid.size)
      BY DEF MarketSell
    <3>2. (ticket.amount \div SizeUnit) * SizeUnit \in Nat
      BY <1>1 DEF SizeUnit
    <3> HIDE DEF kuru
    <3> QED BY <1>1, <3>1, <3>2 DEF Smaller
  <2>2. kuru.sold * bid.price \in Nat
    <3> HIDE DEF kuru
    <3> QED BY <1>1, <2>1
  <2>3. PICK z \in Nat : z = kuru.sold * bid.price
    BY <2>2
  <2>4. z \div 1000 \in Nat
    OBVIOUS
  <2> QED BY <2>3, <2>4 DEF Option
<1>4. kuru.out = gross - CeilDiv(gross * TakerFee, BPS) /\ kuru.sold \in Int
  <2>1. kuru.out = gross - CeilDiv(gross * TakerFee, BPS)
    BY <1>3 DEF MarketSell
  <2>2. kuru.sold = Smaller((ticket.amount \div SizeUnit) * SizeUnit, bid.size)
    BY DEF MarketSell
  <2> HIDE DEF kuru
  <2>3. kuru.sold \in Int
    BY <1>1, <2>2 DEF Smaller, SizeUnit
  <2> QED BY <2>1, <2>3
<1>5. kuru.out \in Int
  BY <1>1, <1>4, CeilTyped
<1>6. /\ UNCHANGED <<onKuru, page>> /\ ticket' = NoTicket /\ outcome'.side = "sell"
      /\ \/ outcome'.landed
         \/ ~ok /\ outcome'.fillable = Fillable /\ outcome'.fresh = Fresh
      /\ \/ UNCHANGED <<cash, options>>
         \/ cash' = cash + proceeds /\ options' = options - ticket.amount + unsold
  <2> HIDE DEF kuru
  <2>1. CASE ok
    <3>1. /\ options' = options - ticket.amount + unsold /\ cash' = cash + proceeds
          /\ UNCHANGED <<onKuru, page>>
          /\ \E g, l, p, m : Ended([side |-> "sell", fresh |-> Fresh, landed |-> TRUE, got |-> g, least |-> l, paid |-> p, most |-> m])
      BY <2>1 DEF SellThroughVenue, kuru
    <3> HIDE DEF ok
    <3> QED BY <3>1 DEF Ended
  <2>2. CASE ~ok
    <3>1. Reverted
      BY <2>2 DEF SellThroughVenue, kuru
    <3> HIDE DEF ok
    <3> QED BY <1>1, <2>2, <3>1 DEF Reverted, Ended
  <2> QED BY <2>1, <2>2
<1>7. cash' \in Int /\ options' \in Int
  <2> HIDE DEF kuru
  <2>1. proceeds \in Int /\ unsold \in Int
    BY <1>1, <1>4, <1>5 DEF ReceivedBy
  <2> QED BY <1>1, <1>6, <2>1
<1>8. Fillable /\ Fresh => ok
  <2> SUFFICES ASSUME Fillable, Fresh PROVE ok
    OBVIOUS
  <2>1. kuru.sold = ticket.amount
    <3>1. kuru.sold = Smaller((ticket.amount \div SizeUnit) * SizeUnit, bid.size)
      BY DEF MarketSell
    <3>2. ticket.amount % SizeUnit = 0 /\ ticket.amount <= bid.size
      BY <1>1 DEF Fillable
    <3>3. (ticket.amount \div SizeUnit) * SizeUnit = ticket.amount
      BY <1>1, <3>2 DEF SizeUnit
    <3> HIDE DEF kuru
    <3> QED BY <1>1, <3>1, <3>2, <3>3 DEF Smaller
  <2>2. ticket.read.bid = bid
    BY DEF Fresh
  <2>3. gross = (ticket.amount * ticket.read.bid.price) \div Option
    BY <1>3, <2>1, <2>2
  <2>4. PICK slip \in Slips : /\ ticket.limit = LessSlip(gross - QuoteSell(gross), slip)
                              /\ ticket.maxVenueFee = WithSlip(QuoteSell(gross), slip)
    BY <1>1, <2>3 DEF SaleOf
  <2> HIDE DEF kuru
  <2>5. proceeds = kuru.out
    BY <1>1, <1>5 DEF ReceivedBy
  <2>6. PICK out \in Int : out = kuru.out
    BY <1>5
  <2>7. /\ out >= LessSlip(gross - QuoteSell(gross), slip)
        /\ QuoteSell(out) <= WithSlip(QuoteSell(gross), slip)
    BY <1>4, <2>6, SaleLands
  <2>8. EnoughOut(proceeds) /\ QuoteSell(proceeds) <= ticket.maxVenueFee
    BY <2>4, <2>5, <2>6, <2>7 DEF EnoughOut
  <2>9. RequireEmpty(stray.cash + kuru.out - proceeds, stray.options + ticket.amount - kuru.sold - unsold)
    BY <1>1, <1>4, <1>5 DEF RequireEmpty, ReceivedBy
  <2> QED BY <1>1, <2>8, <2>9
<1> HIDE DEF ok
<1> QED
  BY <1>2, <1>6, <1>7, <1>8 DEF FreshInv, FreshOrdersLand, Refused, NoTicket

\* A deposit of what Kuru lacked funds the order.
LEMMA LimitEnds ==
  ASSUME FreshInv, PlaceLimit
  PROVE  FreshInv'
<1> DEFINE free == [cash |-> onKuru.cash + ticket.deposit.cash, options |-> onKuru.options + ticket.deposit.options]
           lock == IF ticket.buying THEN [Nothing EXCEPT !.cash = CeilDiv(ticket.price * ticket.size, 100)]
                   ELSE [Nothing EXCEPT !.options = ticket.size * SizeUnit]
           funded == lock.cash <= free.cash /\ lock.options <= free.options
<1>1. /\ ticket.side = "limit" /\ LimitOf(ticket) /\ onKuru \in [cash : Nat, options : Nat]
      /\ cash \in Int /\ options \in Int
      /\ ticket.price \in Nat /\ ticket.size \in Nat /\ ticket.deposit \in [cash : Nat, options : Nat]
  BY DEF FreshInv, LimitOf, PlaceLimit
<1>2. TicketInv'
  BY OtherStepsKeepTicket DEF FreshInv
<1>3. PICK c \in Nat : c = CeilDiv(ticket.price * ticket.size, 100)
  <2>1. ticket.price * ticket.size \in Nat
    BY <1>1
  <2>2. PICK z \in Nat : z = ticket.price * ticket.size
    BY <2>1
  <2>3. CeilDiv(z, 100) \in Nat
    BY CeilIs
  <2> QED BY <2>2, <2>3
<1>4. lock \in [cash : Nat, options : Nat]
      /\ lock = IF ticket.buying THEN [cash |-> c, options |-> 0] ELSE [cash |-> 0, options |-> ticket.size * SizeUnit]
  BY <1>1, <1>3 DEF Nothing, SizeUnit
<1>5. /\ cash' = cash - ticket.deposit.cash /\ options' = options - ticket.deposit.options
      /\ onKuru' = IF funded THEN [cash |-> free.cash - lock.cash, options |-> free.options - lock.options] ELSE free
      /\ Ended([side |-> "limit", fresh |-> Fresh, landed |-> funded, fillable |-> TRUE, within |-> TRUE])
      /\ UNCHANGED page
  BY DEF PlaceLimit
<1> HIDE DEF lock
<1>6. free \in [cash : Nat, options : Nat]
  BY <1>1
<1> HIDE DEF free
<1>7. Fresh => funded
  <2> SUFFICES ASSUME Fresh PROVE funded
    OBVIOUS
  <2>1. ticket.read.onKuru = onKuru
    BY DEF Fresh
  <2>2. CASE ticket.buying
    <3>1. PICK needed \in Int : needed = QuoteNeeded(ticket.price, ticket.size) /\ c <= needed
      <4>1. PICK z \in Nat : z = ticket.price * ticket.size
        BY <1>1
      <4>2. c = (z + 99) \div 100
        BY <1>3, <4>1 DEF CeilDiv
      <4>3. ticket.price * ticket.size * SizeUnit = z * 10
        BY <4>1 DEF SizeUnit
      <4>4. QuoteNeeded(ticket.price, ticket.size) = (z * 10) \div 1000 + 1
        BY <4>3 DEF QuoteNeeded, Option
      <4>5. (z + 99) \div 100 <= (z * 10) \div 1000 + 1
        BY <4>1
      <4> QED BY <4>2, <4>4, <4>5
    <3>2. ticket.deposit.cash = Missing(needed, onKuru.cash)
      BY <1>1, <2>1, <2>2, <3>1 DEF LimitOf
    <3>3. free.cash = onKuru.cash + ticket.deposit.cash
      BY DEF free
    <3>4. free.cash >= needed
      BY <1>1, <3>1, <3>2, <3>3 DEF Missing
    <3> QED BY <1>4, <1>6, <2>2, <3>1, <3>4
  <2>3. CASE ~ticket.buying
    <3>1. PICK needed \in Nat : needed = ticket.size * SizeUnit
      BY <1>1 DEF SizeUnit
    <3>2. ticket.deposit.options >= Missing(needed, onKuru.options)
      BY <1>1, <2>1, <2>3, <3>1 DEF LimitOf
    <3>3. free.options = onKuru.options + ticket.deposit.options
      BY DEF free
    <3>4. free.options >= needed
      BY <1>1, <3>1, <3>2, <3>3 DEF Missing
    <3> QED BY <1>4, <1>6, <2>3, <3>1, <3>4
  <2> QED BY <2>2, <2>3
<1>8. onKuru' \in [cash : Nat, options : Nat]
  BY <1>4, <1>5, <1>6
<1>9. cash' \in Int /\ options' \in Int
  BY <1>1, <1>5
<1>10. ticket' = NoTicket /\ outcome'.side = "limit" /\ outcome'.landed = funded /\ outcome'.fresh = Fresh
  BY <1>5 DEF Ended
<1> HIDE DEF funded
<1> QED
  BY <1>2, <1>5, <1>7, <1>8, <1>9, <1>10 DEF FreshInv, FreshOrdersLand, Refused, NoTicket

\* Until it ends the signed order stays, and the wallet does not shrink.
LEMMA OthersKeepFresh ==
  ASSUME FreshInv, ReadBook \/ MoveBook \/ SetFee \/ Donate \/ WithdrawKuru
  PROVE  FreshInv'
<1>1. TicketInv'
  BY OtherStepsKeepTicket DEF FreshInv
<1>2. page' = page \/ (page'.bid = bid /\ page'.onKuru = onKuru)
  BY DEF ReadBook, MoveBook, SetFee, Donate, WithdrawKuru
<1>3. \/ UNCHANGED <<cash, options, onKuru>>
      \/ onKuru' = Nothing /\ cash' = cash + onKuru.cash /\ options' = options + onKuru.options
  BY DEF ReadBook, MoveBook, SetFee, Donate, WithdrawKuru
<1>4. UNCHANGED <<ticket, outcome>>
  BY DEF ReadBook, MoveBook, SetFee, Donate, WithdrawKuru
<1>5. cash' \in Int /\ options' \in Int /\ onKuru' \in [cash : Nat, options : Nat]
      /\ cash' >= cash /\ options' >= options
  BY <1>3 DEF FreshInv, Nothing
<1>6. page'.bid \in [price : Nat, size : Nat] /\ page'.onKuru \in [cash : Nat, options : Nat]
  BY <1>2 DEF FreshInv, TicketInv
<1>7. ticket.side = "sell" => ticket.amount \in Nat /\ ticket.amount <= options
  BY DEF FreshInv, TicketInv, TicketTyped
<1>8. ticket.side = "limit" => LimitOf(ticket) /\ ticket.deposit \in [cash : Nat, options : Nat]
        /\ ticket.deposit.cash <= cash /\ ticket.deposit.options <= options
  BY DEF FreshInv, LimitOf
<1>9. /\ ticket.side = "sell" => SaleOf(ticket)'
      /\ ticket.side = "limit" => LimitOf(ticket)'
  BY <1>4 DEF FreshInv, SaleOf, LimitOf
<1>10. cash \in Int /\ options \in Int
  BY DEF FreshInv
<1>11. (outcome.side # "buy" => FreshOrdersLand)'
  BY <1>4 DEF FreshInv, FreshOrdersLand, Refused
<1> QED
  BY <1>1, <1>4, <1>5, <1>6, <1>7, <1>8, <1>9, <1>10, <1>11 DEF FreshInv

\* THEOREM.  A sale and an order for Kuru's own book that are signed against the book
\* and the margin account as they stand go through, whatever was sent to the router
\* and the adapter: the sale if it is of whole units and the best bid takes it.
THEOREM FreshSalesLand == TicketSpec => [](outcome.side # "buy" => FreshOrdersLand)
<1>1. FreshInv /\ UNCHANGED ticketVars => FreshInv'
  BY DEF ticketVars, FreshInv, TicketInv, TicketTyped, SignedLimitsHold, SaleOf, LimitOf, FreshOrdersLand, Refused
<1>2. FreshInv /\ TicketNext => FreshInv'
  BY OthersSigned, SaleSigned, LimitSigned, BuyEnds, SaleEnds, LimitEnds, OthersKeepFresh DEF TicketNext
<1>3. FreshInv => (outcome.side # "buy" => FreshOrdersLand)
  BY DEF FreshInv
<1> QED
  BY <1>1, <1>2, <1>3, FreshStarts, PTL DEF TicketSpec

===============================================================================
