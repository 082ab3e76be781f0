-------------------------------- MODULE Book --------------------------------
(***************************************************************************)
(* The option series and what a table of signed balances says about them:  *)
(* totals, participants and short exposure, each computed from the table.  *)
(* The ledger keeps these numbers incrementally; the other contracts only  *)
(* ever read the numbers.                                                  *)
(***************************************************************************)
EXTENDS Integers, FiniteSets, Sequences

-----------------------------------------------------------------------------
(* Sums of natural numbers over a finite set, and rounded divisions.  A    *)
(* sum is the cardinality of a set of unit tokens, f[x] of them for each x *)
(* (not a recursion): facts about it follow from those on finite sets.     *)

Units(x, n) == {x} \X (1..n)

\* The sum of f[x] for x in S, for f a function to Nat on a superset of S.
Total(S, f) == Cardinality(UNION {Units(x, f[x]) : x \in S})

AtMost(a, b)  == IF a < b THEN a ELSE b
AtLeast(a, b) == IF a < b THEN b ELSE a

\* The long and the short side of a signed quantity (SubAccounts._pos, _neg).
Pos(n) == IF n > 0 THEN n ELSE 0
Neg(n) == IF n < 0 THEN -n ELSE 0

\* FixedPointMathLib.divUp: the quotient rounded up; a is a natural number.
DivUp(a, b) == (a + b - 1) \div b

-----------------------------------------------------------------------------
(* The book *)

CONSTANTS
  Accounts, \* account ids
  Series,   \* series ids
  Info      \* series id -> the immutable LedgerSeries record of the series

Groups      == {Info[s].group : s \in Series}
Underlyings == {Info[s].underlying : s \in Series}
ProductOf(s) == <<Info[s].underlying, Info[s].asset>>
Products    == {ProductOf(s) : s \in Series}

ASSUME BookAssumption ==
  /\ IsFiniteSet(Accounts)
  /\ IsFiniteSet(Series)
  /\ \A s \in Series : Info[s].size \in Nat \ {0}

SeriesIn(g) == {s \in Series : Info[s].group = g}

\* The series account a has a balance in, in a table b of balances.
Held(b, a) == {s \in Series : b[a][s] # 0}

LongsOf(b, s)  == Total(Accounts, [a \in Accounts |-> Pos(b[a][s])])
ShortsOf(b, s) == Total(Accounts, [a \in Accounts |-> Neg(b[a][s])])

SeriesCountOf(b, a, g) == Cardinality(Held(b, a) \cap SeriesIn(g))

Participants(b, g) == {a \in Accounts : Held(b, a) \cap SeriesIn(g) # {}}

ShortNotionalOf(b, p) ==
  Total({s \in Series : ProductOf(s) = p},
        [s \in Series |-> ShortsOf(b, s) * Info[s].size])

=============================================================================
