------------------------------- MODULE Ledger -------------------------------
(***************************************************************************)
(* What the ledger promises the contracts that write to it: one call       *)
(* changes one account's cash or one balance, and the published totals,    *)
(* participant counters and short exposure are at every moment those of    *)
(* the balances.                                                           *)
(***************************************************************************)
EXTENDS Book

VARIABLES cash, balances, totals, groupSeriesCount, participants,
          productShortNotional

vars == <<cash, balances, totals, groupSeriesCount, participants,
          productShortNotional>>

\* The published numbers are those of the table b.
Publish(b) ==
  /\ totals' = [s \in Series |-> [internalLong  |-> LongsOf(b, s),
                                  internalShort |-> ShortsOf(b, s)]]
  /\ groupSeriesCount' =
       [a \in Accounts |-> [g \in Groups |-> SeriesCountOf(b, a, g)]]
  /\ participants' = [g \in Groups |-> Cardinality(Participants(b, g))]
  /\ productShortNotional' = [p \in Products |-> ShortNotionalOf(b, p)]

Init ==
  /\ cash = [a \in Accounts |-> 0]
  /\ balances = [a \in Accounts |-> [s \in Series |-> 0]]
  /\ totals = [s \in Series |-> [internalLong |-> 0, internalShort |-> 0]]
  /\ groupSeriesCount = [a \in Accounts |-> [g \in Groups |-> 0]]
  /\ participants = [g \in Groups |-> 0]
  /\ productShortNotional = [p \in Products |-> 0]

SetCash(a) ==
  /\ \A b \in Accounts \ {a} : cash'[b] = cash[b]
  /\ cash'[a] >= 0
  /\ UNCHANGED <<balances, totals, groupSeriesCount, participants,
                 productShortNotional>>

SetBalance(a, s) ==
  /\ balances' = [balances EXCEPT ![a][s] = balances'[a][s]]
  /\ Publish(balances')
  /\ UNCHANGED cash

Next == \E a \in Accounts : SetCash(a) \/ \E s \in Series : SetBalance(a, s)

Spec == Init /\ [][Next]_vars

=============================================================================
