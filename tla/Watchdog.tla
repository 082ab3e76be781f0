------------------------------ MODULE Watchdog ------------------------------
(***************************************************************************)
(* The watchdog (watchdog/src): every minute it runs its checks and tells  *)
(* what changed.  A run reads the saved state, sends the failures that are *)
(* new and failed the run before, sends the recoveries, and saves; a call  *)
(* that fails ends the run where it is, and the next run starts again from *)
(* the state last saved.                                                   *)
(***************************************************************************)
EXTENDS Naturals, FiniteSets

CONSTANTS
  Checks,
  MaxChanges,    \* bound: how often a part goes down or comes back
  MaxFailures    \* bound: failing calls of Telegram and of the store

VARIABLES
  down,      \* the parts that do not work
  dropped,   \* checks that the configuration no longer has
  saved,     \* [pending, failing] in the store
  run,       \* the run under way, or NoRun
  told,      \* [Checks -> messages "down" since the last "recovered"]
  lost,      \* checks told about in a run that then could not save
  changes, failures

watchVars == <<down, dropped, saved, run, told, lost, changes, failures>>

NoRun == [st |-> "none"]

WatchInit ==
  /\ down = {} /\ dropped = {}
  /\ saved = [pending |-> {}, failing |-> {}]
  /\ run = NoRun /\ told = [c \in Checks |-> 0] /\ lost = {} /\ changes = 0 /\ failures = 0

Change ==
  /\ changes < MaxChanges /\ changes' = changes + 1
  /\ \/ \E c \in Checks : down' = (down \ {c}) \cup ({c} \ down) /\ UNCHANGED dropped
     \/ \E c \in Checks \ dropped : dropped' = dropped \cup {c} /\ UNCHANGED down
  /\ UNCHANGED <<saved, run, told, lost, failures>>

-----------------------------------------------------------------------------
(* watch(): `failed' are the checks that failed in this run.               *)

News(failed) == {c \in failed : c \in saved.pending /\ c \notin saved.failing}
Recovered(failed) == saved.failing \ failed     \* passing, or no longer checked

\* Mutant: what is saved is what of the saved state still fails.
NextState_OnlyKnown(failed) == [pending |-> failed \cap saved.pending, failing |-> failed \cap saved.failing]

NextState(failed) ==
  [pending |-> failed \ (saved.failing \cup saved.pending),
   failing |-> failed \cap (saved.failing \cup saved.pending)]

RunChecks ==
  /\ run = NoRun
  /\ LET failed == down \ dropped
     IN run' = [st |-> "down", news |-> News(failed), up |-> Recovered(failed), save |-> NextState(failed)]
  /\ UNCHANGED <<down, dropped, saved, told, lost, changes, failures>>

SendDown ==
  /\ run.st = "down" /\ run' = [run EXCEPT !.st = "up"]
  /\ told' = [c \in Checks |-> IF c \in run.news THEN told[c] + 1 ELSE told[c]]
  /\ UNCHANGED <<down, dropped, saved, lost, changes, failures>>

SendUp ==
  /\ run.st = "up" /\ run' = [run EXCEPT !.st = "save"]
  /\ told' = [c \in Checks |-> IF c \in run.up THEN 0 ELSE told[c]]
  /\ UNCHANGED <<down, dropped, saved, lost, changes, failures>>

Save ==
  /\ run.st = "save" /\ run' = NoRun
  /\ saved' = run.save
  /\ UNCHANGED <<down, dropped, told, lost, changes, failures>>

\* What is saved when a call fails: nothing new.
Aborted == saved

\* Telegram or the store fails; a message is only sent when there is one.
CallFails ==
  /\ failures < MaxFailures /\ failures' = failures + 1
  /\ \/ run.st = "down" /\ run.news # {}
     \/ run.st = "up" /\ run.up # {}
     \/ run.st = "save" /\ run.save # saved
  /\ run' = NoRun /\ saved' = Aborted
  /\ lost' = lost \cup (IF run.st = "down" THEN {} ELSE run.news)
                  \cup (IF run.st = "save" THEN run.up ELSE {})
  /\ UNCHANGED <<down, dropped, told, changes>>

Watching == RunChecks \/ SendDown \/ SendUp \/ Save

WatchNext == Change \/ Watching \/ CallFails

WatchSpec == WatchInit /\ [][WatchNext]_watchVars

-----------------------------------------------------------------------------
\* INVARIANT.  A failure is told once until it clears; it is told again only
\* where a call failed after the message was out.
ToldOnce == \A c \in Checks : told[c] <= 1 + failures

\* LIVENESS.  What stays down is told, and what came back is told too, although
\* messages may fail; unless a run had told of the check and could not save.
Fails(c) == c \in down \ dropped
OutagesTold == \A c \in Checks : <>[](Fails(c) /\ c \notin lost) => <>[](told[c] > 0)
RecoveriesTold == \A c \in Checks : <>[](~Fails(c) /\ c \notin lost) => <>[](told[c] = 0)

=============================================================================
