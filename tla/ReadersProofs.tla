--------------------------- MODULE ReadersProofs ---------------------------
(***************************************************************************)
(* What is read of the chain and of the index is true, for any accounts,   *)
(* series, holders and orders.                                             *)
(*                                                                         *)
(* 1. The scans of the services: the catalog of series and the directory   *)
(*    of balances (CatalogGap, DirectoryExact).                            *)
(* 2. The monitor: a mismatch it reports means that the chain moved under  *)
(*    the pass or that the index was behind (MismatchMeansMoved).          *)
(* 3. The lists the app rebuilds from the logs: along the path of states   *)
(*    the logs of the blocks lead through, the accounts, the last balance  *)
(*    told, the last start and end of an auction are those of the state.   *)
(* 4. The routes of the API, when the index has the whole chain.           *)
(* 5. The orders of the book, whose kinds are read apart: whatever the     *)
(*    chunks, an order ends where the chain has it.                        *)
(* 6. What is written covers the wallets; the two sources agree            *)
(*    (ReadsMatchChain, SourcesAgree).                                     *)
(***************************************************************************)
EXTENDS IndexProofs

-----------------------------------------------------------------------------
(* 1. The scans: what was read is what the blocks told                     *)

IsGrid(b) == b = [a \in Accounts |-> [s \in Series |-> b[a][s]]]

\* At each account and series x is y, or both are where they came from.
SameOrKept(x, y, b, c) ==
  \A a \in Accounts, s \in Series : x[a][s] = y[a][s] \/ (x[a][s] = b[a][s] /\ y[a][s] = c[a][s])

Sets(log, a, s) == log.ev = "BalanceUpdated" /\ log.acct = a /\ log.series = s

Overwritten(x, m, log) ==
  /\ IsGrid(x)
  /\ \A a \in Accounts, s \in Series : x[a][s] = IF Sets(log, a, s) THEN log.balance ELSE m[a][s]

LEMMA RecordAt ==
  ASSUME NEW m, IsGrid(m), NEW log, NEW x, x = Record(m, log)
  PROVE  Overwritten(x, m, log)
<1>1. CASE log.ev # "BalanceUpdated"
  BY <1>1 DEF Record, Overwritten, Sets
<1>2. CASE log.ev = "BalanceUpdated"
  <2>1. PICK a1 : a1 = log.acct
    OBVIOUS
  <2>2. PICK s1 : s1 = log.series
    OBVIOUS
  <2>3. x = [m EXCEPT ![a1][s1] = log.balance]
    BY <1>2, <2>1, <2>2 DEF Record
  <2>4. x = [a \in Accounts |-> [s \in Series |-> x[a][s]]]
    BY <2>3 DEF IsGrid
  <2>5. ASSUME NEW a \in Accounts, NEW s \in Series
        PROVE  x[a][s] = IF a1 = a /\ s1 = s THEN log.balance ELSE m[a][s]
    <3>1. DOMAIN m = Accounts /\ m[a] = [q \in Series |-> m[a][q]]
      BY DEF IsGrid
    <3>2. DOMAIN m[a] = Series
      BY <3>1
    <3>3. x[a] = IF a1 = a THEN [m[a1] EXCEPT ![s1] = log.balance] ELSE m[a]
      BY <2>3, <3>1
    <3>4. CASE a1 = a
      <4>1. x[a] = [m[a] EXCEPT ![s1] = log.balance]
        BY <3>3, <3>4
      <4> QED BY <3>2, <3>4, <4>1
    <3>5. CASE a1 # a
      BY <3>3, <3>5
    <3> QED BY <3>4, <3>5
  <2> QED BY <1>2, <2>1, <2>2, <2>4, <2>5 DEF IsGrid, Overwritten, Sets
<1> QED
  BY <1>1, <1>2

LEMMA RunsTogether ==
  ASSUME NEW logs, Len(logs) \in Nat, NEW b, NEW c, IsGrid(b), IsGrid(c),
         NEW m, NEW r, BalancesRun(m, b, logs), BalancesRun(r, c, logs)
  PROVE  IsGrid(m[Len(logs)]) /\ SameOrKept(m[Len(logs)], r[Len(logs)], b, c)
<1> DEFINE G == {i \in Nat : i <= Len(logs) => IsGrid(m[i]) /\ IsGrid(r[i]) /\ SameOrKept(m[i], r[i], b, c)}
<1>1. 0 \in G
  BY DEF BalancesRun, SameOrKept
<1>2. ASSUME NEW i \in Nat, i \in G PROVE i + 1 \in G
  <2> SUFFICES ASSUME i + 1 <= Len(logs)
               PROVE  IsGrid(m[i + 1]) /\ IsGrid(r[i + 1]) /\ SameOrKept(m[i + 1], r[i + 1], b, c)
    OBVIOUS
  <2>1. i + 1 \in 1..Len(logs) /\ (i + 1) - 1 = i
    OBVIOUS
  <2>2. m[i + 1] = Record(m[i], logs[i + 1]) /\ r[i + 1] = Record(r[i], logs[i + 1])
    BY <2>1 DEF BalancesRun
  <2>3. IsGrid(m[i]) /\ IsGrid(r[i]) /\ SameOrKept(m[i], r[i], b, c)
    BY <1>2
  <2>4. PICK log : log = logs[i + 1]
    OBVIOUS
  <2>5. Overwritten(m[i + 1], m[i], log) /\ Overwritten(r[i + 1], r[i], log)
    BY <2>2, <2>3, <2>4, RecordAt
  <2>6. SameOrKept(m[i + 1], r[i + 1], b, c)
    <3> SUFFICES ASSUME NEW a \in Accounts, NEW s \in Series
                 PROVE  m[i + 1][a][s] = r[i + 1][a][s] \/ (m[i + 1][a][s] = b[a][s] /\ r[i + 1][a][s] = c[a][s])
      BY DEF SameOrKept
    <3>1. CASE Sets(log, a, s)
      BY <2>5, <3>1 DEF Overwritten
    <3>2. CASE ~Sets(log, a, s)
      <4>1. m[i + 1][a][s] = m[i][a][s] /\ r[i + 1][a][s] = r[i][a][s]
        BY <2>5, <3>2 DEF Overwritten
      <4> QED BY <2>3, <4>1 DEF SameOrKept
    <3> QED BY <3>1, <3>2
  <2> QED BY <2>5, <2>6 DEF Overwritten
<1>3. \A i \in Nat : i \in G
  <2> HIDE DEF G
  <2> QED BY <1>1, <1>2, CountInduction
<1> QED
  BY <1>3

LEMMA BalanceRuns ==
  ASSUME NEW logs, IsSeq(logs), NEW b
  PROVE  \E r : BalancesRun(r, b, logs) /\ r[Len(logs)] = FoldLeft(Record, b, logs)
<1>0. PICK k \in Nat : k = Len(logs) /\ DOMAIN logs = 1..k
  BY LengthIs
<1> DEFINE Choice(h, s) == Record(h[s \ {Max(s)}], logs[Max(s)])
           Is(h) == h = [s \in SUBSET (DOMAIN logs) |-> IF s = {} THEN b ELSE Choice(h, s)]
           H == CHOOSE h : Is(h)
<1>1. FoldLeft(Record, b, logs) = H[DOMAIN logs]
  BY DEF FoldLeft, MapThenFoldSet
<1>2. PICK g : g = [s \in SUBSET (1..k) |-> g[s]] /\ IsRun(g, <<"balances", logs>>, b, k)
  BY RunExists
<1>3. \A u, i : Step(<<"balances", logs>>, u, i) = Record(u, logs[i])
  BY DEF Step
<1>4. Is(g)
  <2> SUFFICES g = [s \in SUBSET (1..k) |-> IF s = {} THEN b ELSE Choice(g, s)]
    BY <1>0
  <2>0. \A h, s : Choice(h, s) = Step(<<"balances", logs>>, h[s \ {Max(s)}], Max(s))
    BY <1>3
  <2> HIDE DEF Choice
  <2>1. \A s \in SUBSET (1..k) : g[s] = IF s = {} THEN b ELSE Choice(g, s)
    BY <1>2, <2>0 DEF IsRun
  <2> QED BY <1>2, <2>1
<1>6. Is(H)
  <2> HIDE DEF Is
  <2> QED BY <1>4
<1>7. H = [s \in SUBSET (1..k) |-> IF s = {} THEN b ELSE Choice(H, s)]
  <2> HIDE DEF H, Choice
  <2> QED BY <1>0, <1>6
<1>5. \A h, s : Choice(h, s) = Step(<<"balances", logs>>, h[s \ {Max(s)}], Max(s))
  BY <1>3
<1> HIDE DEF H, Choice
<1>8. \A s \in SUBSET (1..k) : H[s] = IF s = {} THEN b ELSE Choice(H, s)
  BY <1>7
<1>9. IsRun(H, <<"balances", logs>>, b, k)
  BY <1>5, <1>8 DEF IsRun
<1>10. PICK r : Runs(r, <<"balances", logs>>, b, k) /\ r[k] = H[1..k]
  BY <1>9, RunOf
<1>11. BalancesRun(r, b, logs)
  BY <1>0, <1>3, <1>10 DEF BalancesRun, Runs
<1> QED
  BY <1>0, <1>1, <1>10, <1>11

\* The logs of a block, recorded on any balances.
LEMMA BlockRead ==
  ASSUME ChainSound(blocks, mined), NEW n \in 1..Tip, NEW b, IsGrid(b),
         NEW m, BalancesRun(m, b, blocks[n].logs)
  PROVE  /\ IsGrid(m[Len(blocks[n].logs)])
         /\ SameOrKept(m[Len(blocks[n].logs)], WorldIn(blocks, n).bal, b, WorldIn(blocks, n - 1).bal)
<1>1. BlockSound(blocks, mined, n) /\ n \in Nat /\ n # 0
  BY DEF ChainSound, Tip
<1>2. PICK c : c = WorldIn(blocks, n - 1).bal
  OBVIOUS
<1>3. IsSeq(blocks[n].logs) /\ Tracked(blocks[n].logs, WorldIn(blocks, n - 1), blocks[n].world)
  BY <1>1 DEF BlockSound
<1>4. PICK r : BalancesRun(r, c, blocks[n].logs)
  BY <1>3, BalanceRuns
<1>5. r[Len(blocks[n].logs)] = WorldIn(blocks, n).bal
  BY <1>1, <1>2, <1>3, <1>4 DEF Tracked, WorldIn
<1>6. IsGrid(c)
  <2>1. Sound(WorldIn(blocks, n - 1))
    <3>1. CASE n = 1
      BY <3>1, GenesisSound DEF WorldIn
    <3>2. CASE n # 1
      <4>1. n - 1 \in 1..Tip /\ n - 1 # 0
        BY <3>2, TipSound
      <4>2. BlockSound(blocks, mined, n - 1)
        BY <4>1 DEF ChainSound, Tip
      <4> QED BY <4>1, <4>2 DEF BlockSound, WorldIn
    <3> QED BY <3>1, <3>2
  <2>2. c \in Balances
    BY <1>2, <2>1 DEF Sound, Worlds
  <2> QED BY <2>2 DEF Balances, IsGrid
<1>7. Len(blocks[n].logs) \in Nat
  BY <1>3, LengthIs
<1> QED
  BY <1>2, <1>4, <1>5, <1>6, <1>7, RunsTogether

-----------------------------------------------------------------------------
(* The logs of a chunk                                                     *)

LEMMA Joined ==
  ASSUME NEW s, NEW t, IsSeq(s), IsSeq(t)
  PROVE  /\ IsSeq(s \o t) /\ Len(s) \in Nat /\ Len(t) \in Nat /\ Len(s \o t) = Len(s) + Len(t)
         /\ \A i \in 1..Len(s) : (s \o t)[i] = s[i]
         /\ \A i \in 1..Len(t) : (s \o t)[Len(s) + i] = t[i]
<1>1. PICK S : s \in Seq(S)
  BY DEF IsSeq
<1>2. PICK T : t \in Seq(T)
  BY DEF IsSeq
<1>3. PICK U : U = S \cup T
  OBVIOUS
<1>4. s \in Seq(U) /\ t \in Seq(U)
  <2>1. Len(s) \in Nat /\ \A i \in 1..Len(s) : s[i] \in U
    BY <1>1, <1>3
  <2>2. Len(t) \in Nat /\ \A i \in 1..Len(t) : t[i] \in U
    BY <1>2, <1>3
  <2> QED BY <1>1, <1>2, <2>1, <2>2
<1>5. s \o t \in Seq(U) /\ Len(s) \in Nat /\ Len(t) \in Nat /\ Len(s \o t) = Len(s) + Len(t)
  BY <1>4
<1>6. \A i \in 1..Len(s) : (s \o t)[i] = s[i]
  BY <1>4
<1>7. \A i \in 1..Len(t) : (s \o t)[Len(s) + i] = t[i]
  BY <1>4
<1> QED
  BY <1>5, <1>6, <1>7 DEF IsSeq

LEMMA ChunkRuns ==
  ASSUME NEW from \in Nat, NEW to \in Nat, NEW k \in Nat, k = to - from + 1
  PROVE  \E r : Runs(r, <<"chunk", from>>, <<>>, k) /\ r[k] = LogsIn(from, to)
<1> DEFINE seq == [i \in 1..k |-> from + i - 1]
           Choice(h, s) == h[s \ {Max(s)}] \o blocks[seq[Max(s)]].logs
           Is(h) == h = [s \in SUBSET (DOMAIN seq) |-> IF s = {} THEN <<>> ELSE Choice(h, s)]
           H == CHOOSE h : Is(h)
<1>1. LogsIn(from, to) = H[DOMAIN seq]
  BY DEF LogsIn, FoldLeft, MapThenFoldSet
<1>2. PICK g : g = [s \in SUBSET (1..k) |-> g[s]] /\ IsRun(g, <<"chunk", from>>, <<>>, k)
  BY RunExists
<1>3. ASSUME NEW h, NEW s \in SUBSET (1..k), s # {} PROVE Choice(h, s) = Step(<<"chunk", from>>, h[s \ {Max(s)}], Max(s))
  <2>0. seq[Max(s)] = from + Max(s) - 1
    BY <1>3, MaxIn
  <2>1. Choice(h, s) = h[s \ {Max(s)}] \o blocks[from + Max(s) - 1].logs
    BY <2>0
  <2> HIDE DEF Choice, seq
  <2> QED BY <2>1 DEF Step
<1>5. DOMAIN seq = 1..k
  OBVIOUS
<1>4. Is(g)
  <2> SUFFICES g = [s \in SUBSET (1..k) |-> IF s = {} THEN <<>> ELSE Choice(g, s)]
    BY <1>5
  <2> HIDE DEF Choice
  <2>1. \A s \in SUBSET (1..k) : g[s] = IF s = {} THEN <<>> ELSE Choice(g, s)
    BY <1>2, <1>3 DEF IsRun
  <2> QED BY <1>2, <2>1
<1>6. Is(H)
  <2> HIDE DEF Is
  <2> QED BY <1>4
<1>7. H = [s \in SUBSET (1..k) |-> IF s = {} THEN <<>> ELSE Choice(H, s)]
  <2> HIDE DEF H, Choice, seq
  <2> QED BY <1>5, <1>6
<1> HIDE DEF H, Choice, seq
<1>8. \A s \in SUBSET (1..k) : H[s] = IF s = {} THEN <<>> ELSE Choice(H, s)
  BY <1>7
<1>9. IsRun(H, <<"chunk", from>>, <<>>, k)
  BY <1>3, <1>8 DEF IsRun
<1> QED
  BY <1>1, <1>5, <1>9, RunOf

\* Since block i nothing has changed at an account and series up to block j.
Rests(i, j, a, s) == \A n \in i..j : WorldIn(blocks, n).bal[a][s] = WorldIn(blocks, i).bal[a][s]

\* The logs of the blocks after i up to j: all that was listed, and all balances
\* that were changed.
ReadUpTo(logs, i, j) ==
  /\ IsSeq(logs)
  /\ WorldIn(blocks, j).listed \subseteq WorldIn(blocks, i).listed \cup NewlyListed(logs)
  /\ \A b, m : IsGrid(b) /\ BalancesRun(m, b, logs) =>
       /\ IsGrid(m[Len(logs)])
       /\ \A a \in Accounts, s \in Series :
            m[Len(logs)][a][s] = WorldIn(blocks, j).bal[a][s] \/ (m[Len(logs)][a][s] = b[a][s] /\ Rests(i, j, a, s))

LEMMA NothingRead ==
  ASSUME NEW i \in Nat
  PROVE  ReadUpTo(<<>>, i, i)
<1>1. IsSeq(<<>>) /\ Len(<<>>) = 0
  BY NoneSent
<1>2. \A a, s : Rests(i, i, a, s)
  BY DEF Rests
<1> QED
  BY <1>1, <1>2 DEF ReadUpTo, BalancesRun

LEMMA OneMoreRead ==
  ASSUME ChainSound(blocks, mined), NEW i \in Nat, NEW j \in Nat, i <= j, j + 1 <= Tip,
         NEW logs, ReadUpTo(logs, i, j), NEW more, more = logs \o blocks[j + 1].logs
  PROVE  ReadUpTo(more, i, j + 1)
<1>1. PICK n \in Nat : n = j + 1
  OBVIOUS
<1>2. PICK new : new = blocks[n].logs
  OBVIOUS
<1>3. Tip \in Nat /\ n \in 1..Tip /\ n - 1 = j /\ n # 0
  BY <1>1, TipSound
<1>4. BlockSound(blocks, mined, n)
  BY <1>3 DEF ChainSound, Tip
<1>5. IsSeq(new) /\ IsSeq(logs) /\ more = logs \o new
  BY <1>1, <1>2, <1>4 DEF BlockSound, ReadUpTo
<1>6. /\ IsSeq(more) /\ Len(logs) \in Nat /\ Len(new) \in Nat /\ Len(more) = Len(logs) + Len(new)
      /\ \A k \in 1..Len(logs) : more[k] = logs[k]
      /\ \A k \in 1..Len(new) : more[Len(logs) + k] = new[k]
  BY <1>5, Joined
<1>7. WorldIn(blocks, n).listed \subseteq WorldIn(blocks, i).listed \cup NewlyListed(more)
  <2>1. WorldIn(blocks, n).listed \subseteq WorldIn(blocks, j).listed \cup NewlyListed(new)
    BY <1>2, <1>3, <1>4 DEF BlockSound, Tracked, WorldIn
  <2>2. NewlyListed(logs) \subseteq NewlyListed(more)
    <3>1. \A k \in 1..Len(logs) : k \in 1..Len(more) /\ more[k] = logs[k]
      BY <1>6
    <3> QED BY <3>1 DEF NewlyListed
  <2>3. NewlyListed(new) \subseteq NewlyListed(more)
    <3>1. \A k \in 1..Len(new) : Len(logs) + k \in 1..Len(more) /\ more[Len(logs) + k] = new[k]
      BY <1>6
    <3> QED BY <3>1 DEF NewlyListed
  <2> QED BY <2>1, <2>2, <2>3 DEF ReadUpTo
<1>8. ASSUME NEW b, NEW m, IsGrid(b), BalancesRun(m, b, more)
      PROVE  /\ IsGrid(m[Len(more)])
             /\ \A a \in Accounts, s \in Series :
                  m[Len(more)][a][s] = WorldIn(blocks, n).bal[a][s] \/ (m[Len(more)][a][s] = b[a][s] /\ Rests(i, n, a, s))
  <2>1. BalancesRun(m, b, logs)
    <3>1. \A k \in 1..Len(logs) : k \in 1..Len(more) /\ more[k] = logs[k]
      BY <1>6
    <3> QED BY <1>8, <3>1 DEF BalancesRun
  <2>2. PICK c : c = m[Len(logs)]
    OBVIOUS
  <2>3. /\ IsGrid(c)
        /\ \A a \in Accounts, s \in Series :
             c[a][s] = WorldIn(blocks, j).bal[a][s] \/ (c[a][s] = b[a][s] /\ Rests(i, j, a, s))
    BY <1>8, <2>1, <2>2 DEF ReadUpTo
  <2>4. PICK r : r = [k \in 0..Len(new) |-> m[Len(logs) + k]]
    OBVIOUS
  <2>5. BalancesRun(r, c, new)
    <3>1. r[0] = c
      BY <1>6, <2>2, <2>4
    <3>2. ASSUME NEW k \in 1..Len(new) PROVE r[k] = Record(r[k - 1], new[k])
      <4>1. Len(logs) + k \in 1..Len(more) /\ (Len(logs) + k) - 1 = Len(logs) + (k - 1) /\ k \in 0..Len(new) /\ k - 1 \in 0..Len(new)
        BY <1>6
      <4>2. m[Len(logs) + k] = Record(m[Len(logs) + (k - 1)], more[Len(logs) + k])
        BY <1>8, <4>1 DEF BalancesRun
      <4>3. more[Len(logs) + k] = new[k]
        BY <1>6
      <4>4. r[k] = m[Len(logs) + k] /\ r[k - 1] = m[Len(logs) + (k - 1)]
        BY <2>4, <4>1
      <4> QED BY <4>2, <4>3, <4>4
    <3> QED BY <3>1, <3>2 DEF BalancesRun
  <2>6. IsGrid(r[Len(new)]) /\ SameOrKept(r[Len(new)], WorldIn(blocks, n).bal, c, WorldIn(blocks, j).bal)
    <3>1. /\ IsGrid(r[Len(blocks[n].logs)])
          /\ SameOrKept(r[Len(blocks[n].logs)], WorldIn(blocks, n).bal, c, WorldIn(blocks, n - 1).bal)
      BY <1>2, <1>3, <2>3, <2>5, BlockRead
    <3> QED BY <1>2, <1>3, <3>1
  <2>7. r[Len(new)] = m[Len(more)]
    BY <1>6, <2>4
  <2>8. ASSUME NEW a \in Accounts, NEW s \in Series
        PROVE  m[Len(more)][a][s] = WorldIn(blocks, n).bal[a][s] \/ (m[Len(more)][a][s] = b[a][s] /\ Rests(i, n, a, s))
    <3>1. \/ m[Len(more)][a][s] = WorldIn(blocks, n).bal[a][s]
          \/ m[Len(more)][a][s] = c[a][s] /\ WorldIn(blocks, n).bal[a][s] = WorldIn(blocks, j).bal[a][s]
      BY <2>6, <2>7 DEF SameOrKept
    <3>2. c[a][s] = WorldIn(blocks, j).bal[a][s] \/ (c[a][s] = b[a][s] /\ Rests(i, j, a, s))
      BY <2>3
    <3>3. ASSUME Rests(i, j, a, s), WorldIn(blocks, n).bal[a][s] = WorldIn(blocks, j).bal[a][s] PROVE Rests(i, n, a, s)
      <4>1. \A p \in i..n : p \in i..j \/ p = n
        BY <1>1
      <4>2. j \in i..j
        OBVIOUS
      <4> QED BY <3>3, <4>1, <4>2 DEF Rests
    <3> QED BY <3>1, <3>2, <3>3
  <2> QED BY <2>6, <2>7, <2>8
<1> QED
  BY <1>1, <1>6, <1>7, <1>8 DEF ReadUpTo

LEMMA ChunkRead ==
  ASSUME ChainSound(blocks, mined), NEW from \in Nat, NEW to \in Nat, 1 <= from, from <= to, to <= Tip
  PROVE  ReadUpTo(LogsIn(from, to), from - 1, to)
<1>1. PICK k \in Nat : k = to - from + 1
  OBVIOUS
<1>2. PICK i \in Nat : i = from - 1
  OBVIOUS
<1>3. PICK r : Runs(r, <<"chunk", from>>, <<>>, k) /\ r[k] = LogsIn(from, to)
  BY <1>1, ChunkRuns
<1>4. r[0] = <<>> /\ \A n \in 1..k : r[n] = r[n - 1] \o blocks[from + n - 1].logs
  BY <1>3 DEF Runs, Step
<1> DEFINE G == {n \in Nat : n <= k => ReadUpTo(r[n], i, i + n)}
<1>5. 0 \in G
  BY <1>2, <1>4, NothingRead
<1>6. ASSUME NEW n \in Nat, n \in G PROVE n + 1 \in G
  <2> SUFFICES ASSUME n + 1 <= k PROVE ReadUpTo(r[n + 1], i, i + (n + 1))
    OBVIOUS
  <2>1. Tip \in Nat
    BY TipSound
  <2>2. PICK j \in Nat : j = i + n
    OBVIOUS
  <2>3. n + 1 \in 1..k /\ (n + 1) - 1 = n /\ from + (n + 1) - 1 = j + 1 /\ i <= j /\ j + 1 <= Tip /\ i + (n + 1) = j + 1
    BY <1>1, <1>2, <2>1, <2>2
  <2>4. r[n + 1] = r[n] \o blocks[j + 1].logs
    BY <1>4, <2>3
  <2>5. ReadUpTo(r[n], i, j)
    BY <1>6, <2>2, <2>3
  <2>6. ReadUpTo(r[n + 1], i, j + 1)
    BY <2>3, <2>4, <2>5, OneMoreRead
  <2> QED BY <2>3, <2>6
<1>7. \A n \in Nat : n \in G
  <2> HIDE DEF G
  <2> QED BY <1>5, <1>6, CountInduction
<1>8. ReadUpTo(r[k], i, i + k)
  BY <1>7
<1>9. i + k = to
  BY <1>1, <1>2
<1> QED
  BY <1>2, <1>3, <1>8, <1>9

-----------------------------------------------------------------------------
(* The scans over the chain                                                *)

Requests == [head : Nat, from : Nat, to : Nat, attempt : Nat]

\* What is asked for is on the chain.
IsRequest(sc) == sc \in Requests /\ 1 <= sc.from /\ sc.from <= sc.to /\ sc.to <= sc.head /\ sc.head <= Tip

IsProgress(p) == p = Unread \/ \E h : \E b \in 0..Tip : p = [done |-> TRUE, block |-> b, head |-> h]

SeedOf(rows, progress, over) == [rows |-> rows, progress |-> progress, over |-> over]

IsSeed(sd) == \E rows, progress : \E over \in BOOLEAN : sd = SeedOf(rows, progress, over) /\ IsProgress(progress)

ScanTypes ==
  /\ next \in [Followers -> Nat] /\ \A f \in Followers : 1 <= next[f] /\ next[f] <= Tip + 1
  /\ scans \in [Followers -> [Callers -> {Idle} \cup Requests]]
  /\ \A f \in Followers, c \in Callers : scans[f][c] # Idle => IsRequest(scans[f][c])
  /\ IsGrid(balances) /\ rewound \in BOOLEAN /\ IsSeed(seed)

\* The catalog is not synced before its seeding is over, and seeded once.
SeededFirst ==
  /\ ~seed.over => next["catalog"] = 1 /\ \A c \in Callers : scans["catalog"][c] = Idle
  /\ seed.over => seed = SeedOver

\* The catalog has what the first n blocks listed.
Knows(n) == WorldIn(blocks, n).listed \ catalog \subseteq gap

CatalogKept ==
  /\ Knows(next["catalog"] - 1)
  /\ \A c \in Callers : scans["catalog"][c] # Idle => Knows(scans["catalog"][c].from - 1)

DirectoryKept == ~rewound =>
  /\ balances = WorldIn(blocks, next["directory"] - 1).bal
  /\ \A c \in Callers : scans["directory"][c] # Idle => scans["directory"][c].from <= next["directory"]

ScansSound == ScanTypes /\ SeededFirst /\ CatalogKept /\ DirectoryKept

ScanInv == IndexSound /\ OnChain /\ ScansSound

LEMMA FollowersAre == Followers = {"catalog", "directory"} /\ "catalog" # "directory"
BY DEF Followers

LEMMA ScansInitSound ==
  ASSUME IndexInit, ScansInit
  PROVE  ScanInv
<1>1. IndexSound /\ blocks = <<>> /\ seen = <<>>
  BY IndexInitSound DEF IndexInit
<1>2. Tip = 0 /\ Progress = 0
  BY <1>1, NoneSent DEF Tip, Progress
<1>3. OnChain
  BY <1>2 DEF OnChain
<1>4. WorldIn(blocks, 0) = Genesis
  BY DEF WorldIn
<1>5. next = [f \in Followers |-> 1] /\ scans = [f \in Followers |-> [c \in Callers |-> Idle]]
      /\ balances = [a \in Accounts |-> [s \in Series |-> 0]] /\ rewound = FALSE
      /\ seed = [rows |-> Unread, progress |-> Unread, over |-> FALSE]
  BY DEF ScansInit
<1>6. IsSeed(seed)
  <2>1. IsProgress(Unread)
    BY DEF IsProgress
  <2>2. seed = SeedOf(Unread, Unread, FALSE)
    BY <1>5 DEF SeedOf
  <2> QED BY <2>1, <2>2 DEF IsSeed
<1>7. ScanTypes
  <2>1. \A f \in Followers : next[f] = 1 /\ \A c \in Callers : scans[f][c] = Idle
    BY <1>5
  <2>2. next \in [Followers -> Nat] /\ scans \in [Followers -> [Callers -> {Idle} \cup Requests]] /\ rewound \in BOOLEAN
    BY <1>5
  <2>3. IsGrid(balances)
    BY <1>5 DEF IsGrid
  <2> QED BY <1>2, <1>6, <2>1, <2>2, <2>3 DEF ScanTypes
<1>8. SeededFirst
  BY <1>5, FollowersAre DEF SeededFirst
<1>9. CatalogKept
  <2>1. Genesis.listed = {} /\ next["catalog"] - 1 = 0 /\ \A c \in Callers : scans["catalog"][c] = Idle
    BY <1>5, FollowersAre DEF Genesis
  <2> QED BY <1>4, <2>1 DEF CatalogKept, Knows
<1>10. DirectoryKept
  <2>1. Genesis.bal = balances /\ next["directory"] - 1 = 0 /\ \A c \in Callers : scans["directory"][c] = Idle
    BY <1>5, FollowersAre DEF Genesis
  <2> QED BY <1>4, <2>1 DEF DirectoryKept
<1> QED
  BY <1>1, <1>3, <1>7, <1>8, <1>9, <1>10 DEF ScanInv, ScansSound

\* While the chain grows or stays, what was read of it stays right.
LEMMA GrowthKeeps ==
  ASSUME ScansSound, UNCHANGED scanVars, Tip \in Nat, Len(blocks') \in Nat, Tip <= Len(blocks'), Begins(blocks', blocks, Tip)
  PROVE  ScansSound'
<1>1. /\ next' = next /\ catalog' = catalog /\ balances' = balances /\ scans' = scans
      /\ seed' = seed /\ gap' = gap /\ rewound' = rewound
  BY DEF scanVars
<1>2. Tip' = Len(blocks') /\ Tip <= Tip'
  BY DEF Tip
<1>3. \A n \in 0..Tip : WorldIn(blocks', n) = WorldIn(blocks, n)
  BY DEF Begins, WorldIn
<1>4. next \in [Followers -> Nat] /\ \A f \in Followers : 1 <= next[f] /\ next[f] <= Tip + 1
  BY DEF ScansSound, ScanTypes
<1>5. ASSUME NEW f \in Followers, NEW c \in Callers, scans[f][c] # Idle
      PROVE  IsRequest(scans[f][c]) /\ IsRequest(scans[f][c])' /\ scans[f][c].from - 1 \in 0..Tip
  <2>1. PICK sc : sc = scans[f][c]
    OBVIOUS
  <2>2. IsRequest(sc)
    BY <1>5, <2>1 DEF ScansSound, ScanTypes
  <2>3. sc \in Requests /\ sc.from \in Nat /\ sc.to \in Nat /\ sc.head \in Nat /\ sc.head <= Tip
        /\ 1 <= sc.from /\ sc.from <= sc.to /\ sc.to <= sc.head
    BY <2>2 DEF IsRequest, Requests
  <2>4. sc.head <= Tip' /\ sc.from - 1 \in 0..Tip
    BY <1>2, <2>3
  <2> QED BY <1>1, <2>1, <2>2, <2>3, <2>4 DEF IsRequest
<1>6. IsSeed(seed)'
  <2>1. PICK rows, progress : \E over \in BOOLEAN : seed = SeedOf(rows, progress, over) /\ IsProgress(progress)
    BY DEF ScansSound, ScanTypes, IsSeed
  <2>2. \A b \in 0..Tip : b \in 0..Tip'
    BY <1>2
  <2>3. IsProgress(progress)'
    BY <2>1, <2>2 DEF IsProgress
  <2> QED BY <1>1, <2>1, <2>3 DEF IsSeed, SeedOf
<1>7. ScanTypes'
  <2>1. \A f \in Followers : next[f] <= Tip' + 1
    BY <1>2, <1>4
  <2>2. IsGrid(balances)'
    BY <1>1 DEF ScansSound, ScanTypes, IsGrid
  <2> QED BY <1>1, <1>4, <1>5, <1>6, <2>1, <2>2 DEF ScansSound, ScanTypes
<1>8. SeededFirst'
  BY <1>1 DEF ScansSound, SeededFirst
<1>9. CatalogKept'
  <2>1. next["catalog"] - 1 \in 0..Tip
    BY <1>4, FollowersAre
  <2>2. \A n \in 0..Tip : Knows(n) => Knows(n)'
    BY <1>1, <1>3 DEF Knows
  <2>3. ASSUME NEW c \in Callers, scans["catalog"][c] # Idle PROVE Knows(scans["catalog"][c].from - 1)'
    <3>1. scans["catalog"][c].from - 1 \in 0..Tip /\ Knows(scans["catalog"][c].from - 1)
      BY <1>5, <2>3, FollowersAre DEF ScansSound, CatalogKept
    <3>2. PICK n \in 0..Tip : n = scans["catalog"][c].from - 1
      BY <3>1
    <3>3. WorldIn(blocks', n) = WorldIn(blocks, n)
      BY <1>3
    <3> QED BY <1>1, <3>1, <3>2, <3>3 DEF Knows
  <2>4. Knows(next["catalog"] - 1)'
    <3>1. PICK n \in 0..Tip : n = next["catalog"] - 1
      BY <2>1
    <3>2. Knows(n) /\ WorldIn(blocks', n) = WorldIn(blocks, n)
      BY <1>3, <3>1 DEF ScansSound, CatalogKept
    <3> QED BY <1>1, <3>1, <3>2 DEF Knows
  <2> QED BY <1>1, <2>3, <2>4 DEF CatalogKept
<1>10. DirectoryKept'
  <2>1. PICK n \in 0..Tip : n = next["directory"] - 1
    BY <1>4, FollowersAre
  <2>2. WorldIn(blocks', n) = WorldIn(blocks, n)
    BY <1>3
  <2> QED BY <1>1, <2>1, <2>2 DEF ScansSound, DirectoryKept
<1> QED
  BY <1>7, <1>8, <1>9, <1>10 DEF ScansSound

LEMMA ChunkIsOnChain ==
  ASSUME NEW from \in Nat, 1 <= from, NEW head \in Nat, head <= Tip, NEW sc, sc = NextChunk(from, head)
  PROVE  /\ sc \in {Idle} \cup Requests
         /\ sc # Idle => IsRequest(sc) /\ sc.from = from
<1>1. CASE from > head
  BY <1>1 DEF NextChunk
<1>2. CASE ~(from > head)
  <2>1. PICK to : to = Lesser(from + Chunk - 1, head)
    OBVIOUS
  <2>2. to \in Nat /\ from <= to /\ to <= head
    BY <1>2, <2>1, ScansAssumption DEF Lesser
  <2>3. sc = [head |-> head, from |-> from, to |-> to, attempt |-> 0]
    BY <1>2, <2>1 DEF NextChunk
  <2> QED BY <1>2, <2>2, <2>3 DEF IsRequest, Requests
<1> QED
  BY <1>1, <1>2

LEMMA OneScanSet ==
  ASSUME ScanTypes, NEW f \in Followers, NEW c \in Callers, NEW sc \in {Idle} \cup Requests,
         scans' = [scans EXCEPT ![f][c] = sc]
  PROVE  /\ scans' \in [Followers -> [Callers -> {Idle} \cup Requests]] /\ scans'[f][c] = sc
         /\ \A g \in Followers, d \in Callers : scans'[g][d] = sc \/ scans'[g][d] = scans[g][d]
         /\ \A g \in Followers, d \in Callers : g # f => scans'[g][d] = scans[g][d]
<1>1. scans \in [Followers -> [Callers -> {Idle} \cup Requests]]
  BY DEF ScanTypes
<1>2. PICK row : row = [scans[f] EXCEPT ![c] = sc]
  OBVIOUS
<1>3. scans' = [scans EXCEPT ![f] = row] /\ row \in [Callers -> {Idle} \cup Requests] /\ row[c] = sc
      /\ \A d \in Callers : row[d] = sc \/ row[d] = scans[f][d]
  BY <1>1, <1>2
<1>4. scans'[f] = row /\ \A g \in Followers : g # f => scans'[g] = scans[g]
  BY <1>1, <1>3
<1> QED
  BY <1>1, <1>3, <1>4

\* The blocks stay: every scan but one, too.
LEMMA TypesWith ==
  ASSUME ScanTypes, UNCHANGED blocks, NEW f \in Followers, NEW c \in Callers, NEW sc \in {Idle} \cup Requests,
         scans' = [scans EXCEPT ![f][c] = sc], sc # Idle => IsRequest(sc),
         next' \in [Followers -> Nat], \A g \in Followers : 1 <= next'[g] /\ next'[g] <= Tip + 1,
         IsGrid(balances'), rewound' \in BOOLEAN, seed' = seed
  PROVE  ScanTypes'
<1>1. Tip' = Tip
  BY DEF Tip
<1>2. /\ scans' \in [Followers -> [Callers -> {Idle} \cup Requests]]
      /\ \A g \in Followers, d \in Callers : scans'[g][d] = sc \/ scans'[g][d] = scans[g][d]
  <2>1. /\ scans' \in [Followers -> [Callers -> {Idle} \cup Requests]] /\ scans'[f][c] = sc
        /\ \A g \in Followers, d \in Callers : scans'[g][d] = sc \/ scans'[g][d] = scans[g][d]
        /\ \A g \in Followers, d \in Callers : g # f => scans'[g][d] = scans[g][d]
    BY OneScanSet
  <2> QED BY <2>1
<1>3. \A x : IsRequest(x) => IsRequest(x)'
  BY <1>1 DEF IsRequest
<1>4. \A g \in Followers, d \in Callers : scans'[g][d] # Idle => IsRequest(scans'[g][d])
  BY <1>2 DEF ScanTypes
<1>5. \A g \in Followers, d \in Callers : scans'[g][d] # Idle => IsRequest(scans[g][d])'
  BY <1>1, <1>4 DEF IsRequest
<1>6. IsSeed(seed)'
  BY <1>1 DEF ScanTypes, IsSeed, SeedOf, IsProgress
<1> QED
  BY <1>1, <1>2, <1>5, <1>6 DEF ScanTypes, IsGrid

LEMMA StartSyncKeeps ==
  ASSUME ScansSound, Tip \in Nat, UNCHANGED blocks, NEW f \in Followers, NEW c \in Callers, StartSync(f, c)
  PROVE  ScansSound'
<1>1. PICK sc : sc = NextChunk(next[f], Tip)
  OBVIOUS
<1>2. /\ scans[f][c] = Idle /\ next[f] <= Tip /\ (f = "catalog" => seed.over)
      /\ scans' = [scans EXCEPT ![f][c] = sc]
      /\ next' = next /\ catalog' = catalog /\ balances' = balances /\ seed' = seed /\ gap' = gap /\ rewound' = rewound
  BY <1>1 DEF StartSync
<1>3. ScanTypes /\ SeededFirst /\ CatalogKept /\ DirectoryKept /\ next[f] \in Nat /\ 1 <= next[f]
  BY DEF ScansSound, ScanTypes
<1>4. sc \in {Idle} \cup Requests /\ (sc # Idle => IsRequest(sc) /\ sc.from = next[f])
  BY <1>1, <1>3, ChunkIsOnChain
<1>5. ScanTypes'
  <2>1. IsGrid(balances')
    BY <1>2, <1>3 DEF ScanTypes
  <2> QED BY <1>2, <1>3, <1>4, <2>1, TypesWith DEF ScanTypes
<1>6. /\ scans' \in [Followers -> [Callers -> {Idle} \cup Requests]] /\ scans'[f][c] = sc
      /\ \A g \in Followers, d \in Callers : scans'[g][d] = sc \/ scans'[g][d] = scans[g][d]
      /\ \A g \in Followers, d \in Callers : g # f => scans'[g][d] = scans[g][d]
  BY <1>2, <1>3, <1>4, OneScanSet
<1>7. SeededFirst'
  <2>1. ASSUME ~seed.over, NEW d \in Callers PROVE scans'["catalog"][d] = Idle
    <3>1. f # "catalog"
      BY <1>2, <2>1
    <3>2. scans'["catalog"][d] = scans["catalog"][d]
      BY <1>6, <3>1, FollowersAre
    <3> QED BY <1>3, <2>1, <3>2 DEF SeededFirst
  <2> QED BY <1>2, <1>3, <2>1 DEF SeededFirst
<1>8. \A n : Knows(n) => Knows(n)'
  BY <1>2 DEF Knows, WorldIn
<1>9. CatalogKept'
  <2>1. ASSUME NEW d \in Callers, scans'["catalog"][d] # Idle PROVE Knows(scans'["catalog"][d].from - 1)
    <3>1. CASE f = "catalog" /\ scans'["catalog"][d] = sc
      BY <1>3, <1>4, <2>1, <3>1 DEF CatalogKept
    <3>2. CASE scans'["catalog"][d] = scans["catalog"][d]
      BY <1>3, <2>1, <3>2 DEF CatalogKept
    <3> QED BY <1>6, <3>1, <3>2, FollowersAre
  <2> QED BY <1>2, <1>3, <2>1 DEF CatalogKept, Knows, WorldIn
<1>10. DirectoryKept'
  <2>1. ASSUME ~rewound, NEW d \in Callers, scans'["directory"][d] # Idle PROVE scans'["directory"][d].from <= next["directory"]
    <3>1. CASE f = "directory" /\ scans'["directory"][d] = sc
      BY <1>3, <1>4, <2>1, <3>1
    <3>2. CASE scans'["directory"][d] = scans["directory"][d]
      BY <1>3, <2>1, <3>2 DEF DirectoryKept
    <3> QED BY <1>6, <3>1, <3>2, FollowersAre
  <2> QED BY <1>2, <1>3, <2>1 DEF DirectoryKept, WorldIn
<1> QED
  BY <1>5, <1>7, <1>9, <1>10 DEF ScansSound

LEMMA RefusedKeeps ==
  ASSUME ScansSound, Tip \in Nat, UNCHANGED blocks, NEW f \in Followers, NEW c \in Callers, Refused(f, c)
  PROVE  ScansSound'
<1>1. PICK old : old = scans[f][c]
  OBVIOUS
<1>2. PICK sc : sc = IF old.attempt < MaxRetries THEN [old EXCEPT !.attempt = @ + 1] ELSE Idle
  OBVIOUS
<1>3. /\ old # Idle /\ scans' = [scans EXCEPT ![f][c] = sc]
      /\ next' = next /\ catalog' = catalog /\ balances' = balances /\ seed' = seed /\ gap' = gap /\ rewound' = rewound
  BY <1>1, <1>2 DEF Refused
<1>4. ScanTypes /\ SeededFirst /\ CatalogKept /\ DirectoryKept /\ IsRequest(old)
  BY <1>1, <1>3 DEF ScansSound, ScanTypes
<1>5. sc \in {Idle} \cup Requests /\ (sc # Idle => IsRequest(sc) /\ sc.from = old.from)
  <2>1. CASE sc = Idle
    BY <2>1
  <2>2. CASE sc = [old EXCEPT !.attempt = @ + 1]
    BY <1>4, <2>2 DEF IsRequest, Requests
  <2> QED BY <1>2, <2>1, <2>2
<1>6. ScanTypes'
  <2>1. IsGrid(balances')
    BY <1>3, <1>4 DEF ScanTypes
  <2> QED BY <1>3, <1>4, <1>5, <2>1, TypesWith DEF ScanTypes
<1>7. /\ scans' \in [Followers -> [Callers -> {Idle} \cup Requests]] /\ scans'[f][c] = sc
      /\ \A g \in Followers, d \in Callers : scans'[g][d] = sc \/ scans'[g][d] = scans[g][d]
      /\ \A g \in Followers, d \in Callers : g # f => scans'[g][d] = scans[g][d]
  BY <1>3, <1>4, <1>5, OneScanSet
<1>8. SeededFirst'
  <2>1. ASSUME ~seed.over, NEW d \in Callers PROVE scans'["catalog"][d] = Idle
    <3>1. f # "catalog"
      BY <1>1, <1>3, <1>4, <2>1 DEF SeededFirst
    <3>2. scans'["catalog"][d] = scans["catalog"][d]
      BY <1>7, <3>1, FollowersAre
    <3> QED BY <1>4, <2>1, <3>2 DEF SeededFirst
  <2> QED BY <1>3, <1>4, <2>1 DEF SeededFirst
<1>9. CatalogKept'
  <2>1. ASSUME NEW d \in Callers, scans'["catalog"][d] # Idle PROVE Knows(scans'["catalog"][d].from - 1)
    <3>1. CASE f = "catalog" /\ scans'["catalog"][d] = sc
      BY <1>1, <1>3, <1>4, <1>5, <2>1, <3>1 DEF CatalogKept
    <3>2. CASE scans'["catalog"][d] = scans["catalog"][d]
      BY <1>4, <2>1, <3>2 DEF CatalogKept
    <3> QED BY <1>7, <3>1, <3>2, FollowersAre
  <2> QED BY <1>3, <1>4, <2>1 DEF CatalogKept, Knows, WorldIn
<1>10. DirectoryKept'
  <2>1. ASSUME ~rewound, NEW d \in Callers, scans'["directory"][d] # Idle PROVE scans'["directory"][d].from <= next["directory"]
    <3>1. CASE f = "directory" /\ scans'["directory"][d] = sc
      BY <1>1, <1>3, <1>4, <1>5, <2>1, <3>1 DEF DirectoryKept
    <3>2. CASE scans'["directory"][d] = scans["directory"][d]
      BY <1>4, <2>1, <3>2 DEF DirectoryKept
    <3> QED BY <1>7, <3>1, <3>2, FollowersAre
  <2> QED BY <1>3, <1>4, <2>1 DEF DirectoryKept, WorldIn
<1> QED
  BY <1>6, <1>8, <1>9, <1>10 DEF ScansSound

\* Both followers: the position is behind what was read, and the next chunk is asked.
AnswerMoves(f, c, sc, new) ==
  /\ sc = scans[f][c] /\ sc # Idle /\ IsRequest(sc) /\ sc.from \in Nat /\ sc.to \in Nat /\ sc.head \in Nat
  /\ new = NextChunk(sc.to + 1, sc.head) /\ new \in {Idle} \cup Requests
  /\ new # Idle => IsRequest(new) /\ new.from = sc.to + 1
  /\ scans' = [scans EXCEPT ![f][c] = new] /\ next' = [next EXCEPT ![f] = sc.to + 1]
  /\ next' \in [Followers -> Nat] /\ \A g \in Followers : 1 <= next'[g] /\ next'[g] <= Tip + 1
  /\ seed' = seed /\ gap' = gap
  /\ rewound' = (rewound \/ (f = "directory" /\ sc.to + 1 < next[f]))

LEMMA AnswerIs ==
  ASSUME ScansSound, Tip \in Nat, NEW f \in Followers, NEW c \in Callers, Answer(f, c)
  PROVE  \E sc, new : AnswerMoves(f, c, sc, new)
<1>1. PICK sc : sc = scans[f][c]
  OBVIOUS
<1>2. PICK new : new = NextChunk(sc.to + 1, sc.head)
  OBVIOUS
<1>3. /\ sc # Idle /\ scans' = [scans EXCEPT ![f][c] = new] /\ next' = [next EXCEPT ![f] = sc.to + 1]
      /\ seed' = seed /\ gap' = gap
      /\ rewound' = (rewound \/ (f = "directory" /\ sc.to + 1 < next[f]))
  BY <1>1, <1>2 DEF Answer, Position
<1>4. IsRequest(sc)
  BY <1>1, <1>3 DEF ScansSound, ScanTypes
<1>5. sc.from \in Nat /\ sc.to \in Nat /\ sc.head \in Nat /\ sc.to + 1 \in Nat /\ 1 <= sc.to + 1 /\ sc.head <= Tip /\ sc.to + 1 <= Tip + 1
  BY <1>4 DEF IsRequest, Requests
<1>6. new \in {Idle} \cup Requests /\ (new # Idle => IsRequest(new) /\ new.from = sc.to + 1)
  BY <1>2, <1>5, ChunkIsOnChain
<1>7. next' \in [Followers -> Nat] /\ \A g \in Followers : 1 <= next'[g] /\ next'[g] <= Tip + 1
  <2>1. next \in [Followers -> Nat] /\ \A g \in Followers : 1 <= next[g] /\ next[g] <= Tip + 1
    BY DEF ScansSound, ScanTypes
  <2>2. PICK n \in Nat : n = sc.to + 1
    BY <1>5
  <2>3. next' = [next EXCEPT ![f] = n] /\ 1 <= n /\ n <= Tip + 1
    BY <1>3, <1>5, <2>2
  <2> QED BY <2>1, <2>3
<1> QED
  BY <1>1, <1>2, <1>3, <1>4, <1>5, <1>6, <1>7 DEF AnswerMoves

LEMMA CatalogAnswers ==
  ASSUME ScansSound, ChainSound(blocks, mined), UNCHANGED blocks, NEW c \in Callers, Answer("catalog", c)
  PROVE  ScansSound'
<1>0. Tip \in Nat /\ "catalog" \in Followers /\ "directory" \in Followers /\ "catalog" # "directory"
  BY TipSound, FollowersAre
<1>1. PICK sc, new : AnswerMoves("catalog", c, sc, new)
  BY <1>0, AnswerIs
<1>2. ScanTypes /\ SeededFirst /\ CatalogKept /\ DirectoryKept
  BY DEF ScansSound
<1>3. PICK logs : logs = LogsIn(sc.from, sc.to)
  OBVIOUS
<1>4. /\ balances' = balances
      /\ catalog' = catalog \cup {l.series : l \in {l \in Range(logs) : l.ev = "SeriesCreated"}}
  BY <1>1, <1>3 DEF Answer, AnswerMoves
<1>5. rewound' = rewound
  <2>1. rewound' = (rewound \/ FALSE) /\ rewound \in BOOLEAN
    BY <1>0, <1>1, <1>2 DEF AnswerMoves, ScanTypes
  <2> QED BY <2>1
<1>6. ScanTypes'
  <2>1. IsGrid(balances') /\ rewound' \in BOOLEAN
    BY <1>2, <1>4, <1>5 DEF ScanTypes
  <2> QED BY <1>0, <1>1, <1>2, <2>1, TypesWith DEF AnswerMoves
<1>7. /\ scans' \in [Followers -> [Callers -> {Idle} \cup Requests]] /\ scans'["catalog"][c] = new
      /\ \A g \in Followers, d \in Callers : scans'[g][d] = new \/ scans'[g][d] = scans[g][d]
      /\ \A g \in Followers, d \in Callers : g # "catalog" => scans'[g][d] = scans[g][d]
  <2>1. scans' = [scans EXCEPT !["catalog"][c] = new] /\ new \in {Idle} \cup Requests
    BY <1>1 DEF AnswerMoves
  <2> QED BY <1>0, <1>2, <2>1, OneScanSet
<1>8. SeededFirst'
  <2>1. seed.over
    BY <1>1, <1>2 DEF SeededFirst, AnswerMoves
  <2> QED BY <1>1, <1>2, <2>1 DEF SeededFirst, AnswerMoves
<1>10. WorldIn(blocks, sc.to).listed \ catalog' \subseteq gap'
  <2>1. ReadUpTo(logs, sc.from - 1, sc.to)
    <3>1. 1 <= sc.from /\ sc.from <= sc.to /\ sc.to <= Tip /\ sc.from \in Nat /\ sc.to \in Nat
      BY <1>0, <1>1 DEF AnswerMoves, IsRequest
    <3> QED BY <1>3, <3>1, ChunkRead
  <2>2. NewlyListed(logs) \subseteq catalog'
    <3> SUFFICES ASSUME NEW i \in 1..Len(logs), NEW x \in Lists(logs[i]) PROVE x \in catalog'
      BY DEF NewlyListed
    <3>1. logs[i].ev = "SeriesCreated" /\ x = logs[i].series
      BY DEF Lists
    <3>2. logs[i] \in Range(logs)
      BY <2>1, LengthIs DEF ReadUpTo, Range
    <3> QED BY <1>4, <3>1, <3>2
  <2>3. WorldIn(blocks, sc.to).listed \subseteq WorldIn(blocks, sc.from - 1).listed \cup NewlyListed(logs)
    BY <2>1 DEF ReadUpTo
  <2>4. WorldIn(blocks, sc.from - 1).listed \ catalog \subseteq gap
    BY <1>1, <1>2 DEF AnswerMoves, CatalogKept, Knows
  <2>5. catalog \subseteq catalog' /\ gap' = gap
    BY <1>1, <1>4 DEF AnswerMoves
  <2> QED BY <2>2, <2>3, <2>4, <2>5
<1>11. CatalogKept'
  <2>1. PICK n \in Nat : n = sc.to
    BY <1>1 DEF AnswerMoves
  <2>2. next'["catalog"] = n + 1 /\ (n + 1) - 1 = n
    BY <1>0, <1>1, <1>2, <2>1 DEF AnswerMoves, ScanTypes
  <2>3. ASSUME NEW d \in Callers, scans'["catalog"][d] # Idle
        PROVE  WorldIn(blocks, scans'["catalog"][d].from - 1).listed \ catalog' \subseteq gap'
    <3>1. PICK m : m = scans'["catalog"][d].from - 1
      OBVIOUS
    <3>2. CASE scans'["catalog"][d] = new
      <4>1. m = n
        BY <1>1, <2>1, <2>2, <2>3, <3>1, <3>2 DEF AnswerMoves
      <4> QED BY <1>10, <2>1, <3>1, <4>1
    <3>3. CASE scans'["catalog"][d] = scans["catalog"][d]
      <4>1. Knows(m)
        BY <1>2, <2>3, <3>1, <3>3 DEF CatalogKept
      <4>2. WorldIn(blocks, m).listed \ catalog' \subseteq gap'
        BY <1>1, <1>4, <4>1 DEF Knows, AnswerMoves
      <4> QED BY <3>1, <4>2
    <3> QED BY <1>0, <1>7, <3>2, <3>3
  <2>4. WorldIn(blocks, next'["catalog"] - 1).listed \ catalog' \subseteq gap'
    BY <1>10, <2>1, <2>2
  <2>5. \A x : WorldIn(blocks', x) = WorldIn(blocks, x)
    BY DEF WorldIn
  <2> QED BY <2>3, <2>4, <2>5 DEF CatalogKept, Knows
<1>12. DirectoryKept'
  <2>1. next'["directory"] = next["directory"]
    BY <1>0, <1>1, <1>2 DEF AnswerMoves, ScanTypes
  <2>2. \A d \in Callers : scans'["directory"][d] = scans["directory"][d]
    BY <1>0, <1>7
  <2> QED BY <1>2, <1>4, <1>5, <2>1, <2>2 DEF DirectoryKept, WorldIn
<1> QED
  BY <1>6, <1>8, <1>11, <1>12 DEF ScansSound

LEMMA DirectoryAnswers ==
  ASSUME ScansSound, ChainSound(blocks, mined), UNCHANGED blocks, NEW c \in Callers, Answer("directory", c)
  PROVE  ScansSound'
<1>0. Tip \in Nat /\ "catalog" \in Followers /\ "directory" \in Followers /\ "catalog" # "directory"
  BY TipSound, FollowersAre
<1>1. PICK sc, new : AnswerMoves("directory", c, sc, new)
  BY <1>0, AnswerIs
<1>2. ScanTypes /\ SeededFirst /\ CatalogKept /\ DirectoryKept
  BY DEF ScansSound
<1>3. PICK logs : logs = LogsIn(sc.from, sc.to)
  OBVIOUS
<1>4. balances' = FoldLeft(Record, balances, logs) /\ catalog' = catalog
  BY <1>0, <1>1, <1>3 DEF Answer, AnswerMoves
<1>5. 1 <= sc.from /\ sc.from <= sc.to /\ sc.to <= Tip /\ sc.from \in Nat /\ sc.to \in Nat
  BY <1>0, <1>1 DEF AnswerMoves, IsRequest
<1>6. ReadUpTo(logs, sc.from - 1, sc.to)
  BY <1>3, <1>5, ChunkRead
<1>7. PICK m : BalancesRun(m, balances, logs) /\ m[Len(logs)] = balances'
  <2>1. IsSeq(logs)
    BY <1>6 DEF ReadUpTo
  <2>2. \E r : BalancesRun(r, balances, logs) /\ r[Len(logs)] = FoldLeft(Record, balances, logs)
    BY <2>1, BalanceRuns
  <2> QED BY <1>4, <2>2
<1>8. /\ IsGrid(balances')
      /\ \A a \in Accounts, s \in Series :
           balances'[a][s] = WorldIn(blocks, sc.to).bal[a][s]
             \/ (balances'[a][s] = balances[a][s] /\ Rests(sc.from - 1, sc.to, a, s))
  <2>1. IsGrid(balances) /\ BalancesRun(m, balances, logs)
    BY <1>2, <1>7 DEF ScanTypes
  <2> QED BY <1>6, <1>7, <2>1 DEF ReadUpTo
<1>9. ScanTypes'
  <2>1. rewound' \in BOOLEAN
    BY <1>1 DEF AnswerMoves
  <2> QED BY <1>0, <1>1, <1>2, <1>8, <2>1, TypesWith DEF AnswerMoves
<1>10. /\ scans' \in [Followers -> [Callers -> {Idle} \cup Requests]] /\ scans'["directory"][c] = new
       /\ \A g \in Followers, d \in Callers : scans'[g][d] = new \/ scans'[g][d] = scans[g][d]
       /\ \A g \in Followers, d \in Callers : g # "directory" => scans'[g][d] = scans[g][d]
  <2>1. scans' = [scans EXCEPT !["directory"][c] = new] /\ new \in {Idle} \cup Requests
    BY <1>1 DEF AnswerMoves
  <2> QED BY <1>0, <1>2, <2>1, OneScanSet
<1>11. \A d \in Callers : scans'["catalog"][d] = scans["catalog"][d]
  BY <1>0, <1>10
<1>12. next'["catalog"] = next["catalog"] /\ next'["directory"] = sc.to + 1
  BY <1>0, <1>1, <1>2 DEF AnswerMoves, ScanTypes
<1>13. SeededFirst' /\ CatalogKept'
  <2>1. seed' = seed /\ gap' = gap
    BY <1>1 DEF AnswerMoves
  <2>2. SeededFirst'
    BY <1>2, <1>11, <1>12, <2>1 DEF SeededFirst
  <2>3. CatalogKept'
    BY <1>2, <1>4, <1>11, <1>12, <2>1 DEF CatalogKept, Knows, WorldIn
  <2> QED BY <2>2, <2>3
<1>14. DirectoryKept'
  <2> SUFFICES ASSUME ~rewound'
               PROVE  /\ balances' = WorldIn(blocks, sc.to).bal
                      /\ \A d \in Callers : scans'["directory"][d] # Idle => scans'["directory"][d].from <= sc.to + 1
    <3>1. (sc.to + 1) - 1 = sc.to
      BY <1>5
    <3> QED BY <1>12, <3>1 DEF DirectoryKept, WorldIn
  <2>1. ~rewound /\ ~(sc.to + 1 < next["directory"])
    BY <1>1 DEF AnswerMoves
  <2>2. PICK p \in Nat : p = next["directory"] - 1
    BY <1>0, <1>2 DEF ScanTypes
  <2>3. balances = WorldIn(blocks, p).bal /\ sc.from <= next["directory"]
        /\ \A d \in Callers : scans["directory"][d] # Idle => scans["directory"][d].from <= next["directory"]
    BY <1>1, <1>2, <2>1, <2>2 DEF DirectoryKept, AnswerMoves
  <2>4. PICK i \in Nat : i = sc.from - 1
    BY <1>5
  <2>5. next["directory"] \in Nat
    BY <1>0, <1>2 DEF ScanTypes
  <2>6. p \in i..sc.to /\ sc.to \in i..sc.to /\ next["directory"] <= sc.to + 1
    BY <1>5, <2>1, <2>2, <2>3, <2>4, <2>5
  <2>7. \A a \in Accounts, s \in Series : balances'[a][s] = WorldIn(blocks, sc.to).bal[a][s]
    BY <1>8, <2>3, <2>4, <2>6 DEF Rests
  <2>8. IsGrid(WorldIn(blocks, sc.to).bal)
    <3>1. sc.to \in 1..Tip /\ sc.to # 0
      BY <1>0, <1>5
    <3>2. Sound(blocks[sc.to].world)
      BY <3>1 DEF ChainSound, BlockSound, Tip
    <3>3. WorldIn(blocks, sc.to).bal \in Balances
      BY <3>1, <3>2 DEF Sound, Worlds, WorldIn
    <3> QED BY <3>3 DEF Balances, IsGrid
  <2>9. balances' = WorldIn(blocks, sc.to).bal
    BY <1>8, <2>7, <2>8 DEF IsGrid
  <2>10. ASSUME NEW d \in Callers, scans'["directory"][d] # Idle PROVE scans'["directory"][d].from <= sc.to + 1
    <3>1. CASE scans'["directory"][d] = new
      BY <1>1, <1>5, <2>10, <3>1 DEF AnswerMoves
    <3>2. CASE scans'["directory"][d] = scans["directory"][d]
      <4>1. PICK x : x = scans["directory"][d]
        OBVIOUS
      <4>2. IsRequest(x) /\ x.from <= next["directory"]
        BY <1>0, <1>2, <2>3, <2>10, <3>2, <4>1 DEF ScanTypes
      <4>3. x.from \in Nat
        BY <4>2 DEF IsRequest, Requests
      <4> QED BY <1>5, <2>5, <2>6, <3>2, <4>1, <4>2, <4>3
    <3> QED BY <1>0, <1>10, <3>1, <3>2
  <2> QED BY <2>9, <2>10
<1> QED
  BY <1>9, <1>13, <1>14 DEF ScansSound

\* Only the seeding moves.
LEMMA SeedMoves ==
  ASSUME ScansSound, UNCHANGED blocks, UNCHANGED <<next, catalog, balances, scans, gap, rewound>>,
         ~seed.over, IsSeed(seed'), seed'.over => seed' = SeedOver
  PROVE  ScansSound'
<1>1. /\ next' = next /\ catalog' = catalog /\ balances' = balances /\ scans' = scans
      /\ gap' = gap /\ rewound' = rewound /\ Tip' = Tip
  BY DEF Tip
<1>2. \A x : IsRequest(x) => IsRequest(x)'
  BY <1>1 DEF IsRequest
<1>3. ScanTypes'
  <2>1. IsSeed(seed)'
    BY <1>1 DEF IsSeed, IsProgress, SeedOf
  <2>2. IsGrid(balances)'
    BY <1>1 DEF ScansSound, ScanTypes, IsGrid
  <2>3. \A f \in Followers, c \in Callers : scans[f][c] # Idle => IsRequest(scans[f][c])
    BY DEF ScansSound, ScanTypes
  <2>4. \A f \in Followers, c \in Callers : scans'[f][c] # Idle => IsRequest(scans[f][c])'
    BY <1>1, <2>3 DEF IsRequest
  <2> QED BY <1>1, <2>1, <2>2, <2>4 DEF ScansSound, ScanTypes
<1>4. SeededFirst'
  BY <1>1 DEF ScansSound, SeededFirst
<1>5. CatalogKept' /\ DirectoryKept'
  <2>1. CatalogKept'
    BY <1>1 DEF ScansSound, CatalogKept, Knows, WorldIn
  <2>2. DirectoryKept'
    BY <1>1 DEF ScansSound, DirectoryKept, WorldIn
  <2> QED BY <2>1, <2>2
<1> QED
  BY <1>3, <1>4, <1>5 DEF ScansSound

LEMMA SeedingKeeps ==
  ASSUME ScansSound, Tip \in Nat, Progress \in 0..Tip, UNCHANGED blocks, SeedRows \/ SeedProgress \/ SeedFails
  PROVE  ScansSound'
<1>1. PICK rows, progress : \E over \in BOOLEAN : seed = SeedOf(rows, progress, over) /\ IsProgress(progress)
  BY DEF ScansSound, ScanTypes, IsSeed
<1>2. ~seed.over /\ UNCHANGED <<next, catalog, balances, scans, gap, rewound>>
  BY DEF SeedRows, SeedProgress, SeedFails
<1>3. seed = SeedOf(rows, progress, FALSE)
  <2>1. PICK over \in BOOLEAN : seed = SeedOf(rows, progress, over)
    BY <1>1
  <2>2. seed.over = over
    BY <2>1 DEF SeedOf
  <2>3. CASE over = TRUE
    BY <1>2, <2>2, <2>3
  <2>4. CASE over = FALSE
    BY <2>1, <2>4
  <2> QED BY <2>3, <2>4
<1>4. IsSeed(seed') /\ (seed'.over => seed' = SeedOver)
  <2>1. CASE SeedRows
    <3>1. PICK x : x = [done |-> TRUE, series |-> DOMAIN tables.series]
      OBVIOUS
    <3>2. seed' = SeedOf(x, progress, FALSE)
      BY <1>3, <2>1, <3>1 DEF SeedRows, SeedOf
    <3> QED BY <1>1, <3>2 DEF IsSeed, SeedOf
  <2>2. CASE SeedProgress
    <3>1. PICK x : x = [done |-> TRUE, block |-> Progress, head |-> Tip]
      OBVIOUS
    <3>2. seed' = SeedOf(rows, x, FALSE)
      BY <1>3, <2>2, <3>1 DEF SeedProgress, SeedOf
    <3>3. IsProgress(x)
      BY <3>1 DEF IsProgress
    <3> QED BY <3>2, <3>3 DEF IsSeed, SeedOf
  <2>3. CASE SeedFails
    <3>1. seed' = SeedOver /\ SeedOver = SeedOf(Unread, Unread, TRUE) /\ IsProgress(Unread)
      BY <2>3 DEF SeedFails, SeedOver, SeedOf, IsProgress
    <3> QED BY <3>1 DEF IsSeed
  <2> QED BY <2>1, <2>2, <2>3
<1> QED
  BY <1>2, <1>4, SeedMoves

LEMMA SeededKeeps ==
  ASSUME ScansSound, Tip \in Nat, UNCHANGED blocks, Seeded
  PROVE  ScansSound'
<1>1. PICK rows, progress : \E over \in BOOLEAN : seed = SeedOf(rows, progress, over) /\ IsProgress(progress)
  BY DEF ScansSound, ScanTypes, IsSeed
<1>2. seed.rows.done /\ seed.progress.done /\ seed.progress = progress
  BY <1>1 DEF Seeded, SeedOf
<1>3. PICK b \in 0..Tip : progress.block = b
  <2>1. progress # Unread
    BY <1>2 DEF Unread
  <2> QED BY <1>1, <2>1 DEF IsProgress
<1>4. ~seed.over
  <2>1. SeedOver.rows.done = FALSE
    BY DEF SeedOver, Unread
  <2> QED BY <1>2, <2>1 DEF ScansSound, SeededFirst
<1>5. next["catalog"] = 1 /\ \A c \in Callers : scans["catalog"][c] = Idle
  BY <1>4 DEF ScansSound, SeededFirst
<1>6. seed' = SeedOver /\ balances' = balances /\ scans' = scans /\ rewound' = rewound /\ Tip' = Tip
  BY DEF Seeded, Tip
<1>7. \/ next' = next /\ catalog' = catalog /\ gap' = gap
      \/ /\ b # 0 /\ next' = [next EXCEPT !["catalog"] = b + 1]
         /\ WorldIn(blocks, b).listed \ catalog' \subseteq gap'
  <2>1. CASE b = 0
    BY <1>2, <1>3, <2>1 DEF Seeded
  <2>2. CASE b # 0
    <3>1. /\ catalog' = seed.rows.series
          /\ next' = [next EXCEPT !["catalog"] = IF b + 1 > @ THEN b + 1 ELSE @]
          /\ gap' = WorldAt(b).listed \ seed.rows.series
      BY <1>2, <1>3, <2>2 DEF Seeded, Resume
    <3>2. b + 1 > next["catalog"]
      BY <1>3, <1>5, <2>2
    <3>3. WorldAt(b) = WorldIn(blocks, b)
      BY DEF WorldAt, WorldIn
    <3>4. next' = [next EXCEPT !["catalog"] = b + 1]
      BY <3>1, <3>2
    <3>5. WorldIn(blocks, b).listed \ catalog' \subseteq gap'
      BY <3>1, <3>3
    <3> QED BY <2>2, <3>4, <3>5
  <2> QED BY <2>1, <2>2
<1>8. "catalog" \in Followers /\ "directory" \in Followers /\ "catalog" # "directory" /\ next \in [Followers -> Nat]
  BY FollowersAre DEF ScansSound, ScanTypes
<1>9. /\ next' \in [Followers -> Nat] /\ next'["directory"] = next["directory"]
      /\ \A f \in Followers : 1 <= next'[f] /\ next'[f] <= Tip + 1
  <2>1. \A f \in Followers : 1 <= next[f] /\ next[f] <= Tip + 1
    BY DEF ScansSound, ScanTypes
  <2>2. PICK n \in Nat : n = b + 1
    BY <1>3
  <2>3. 1 <= n /\ n <= Tip + 1
    BY <1>3, <2>2
  <2>4. CASE next' = next
    BY <1>8, <2>1, <2>4
  <2>5. CASE next' = [next EXCEPT !["catalog"] = n]
    BY <1>8, <2>1, <2>3, <2>5
  <2> QED BY <1>7, <2>2, <2>4, <2>5
<1>10. ScanTypes'
  <2>1. IsSeed(seed)'
    <3>1. seed' = SeedOf(Unread, Unread, TRUE)
      BY <1>6 DEF SeedOver, SeedOf
    <3> QED BY <3>1 DEF IsSeed, IsProgress, SeedOf
  <2>2. IsGrid(balances)'
    BY <1>6 DEF ScansSound, ScanTypes, IsGrid
  <2>3. \A f \in Followers, c \in Callers : scans[f][c] # Idle => IsRequest(scans[f][c])
    BY DEF ScansSound, ScanTypes
  <2>4. \A f \in Followers, c \in Callers : scans'[f][c] # Idle => IsRequest(scans[f][c])'
    BY <1>6, <2>3 DEF IsRequest
  <2> QED BY <1>6, <1>9, <2>1, <2>2, <2>4 DEF ScansSound, ScanTypes
<1>11. SeededFirst'
  <2>1. SeedOver.over
    BY DEF SeedOver
  <2> QED BY <1>6, <2>1 DEF SeededFirst
<1>12. CatalogKept'
  <2>1. WorldIn(blocks, next'["catalog"] - 1).listed \ catalog' \subseteq gap'
    <3>1. CASE next' = next /\ catalog' = catalog /\ gap' = gap
      BY <3>1 DEF ScansSound, CatalogKept, Knows
    <3>2. CASE next' = [next EXCEPT !["catalog"] = b + 1] /\ WorldIn(blocks, b).listed \ catalog' \subseteq gap'
      <4>1. next'["catalog"] - 1 = b
        BY <1>3, <1>8, <3>2
      <4> QED BY <3>2, <4>1
    <3> QED BY <1>7, <3>1, <3>2
  <2>2. \A x : WorldIn(blocks', x) = WorldIn(blocks, x)
    BY DEF WorldIn
  <2> QED BY <1>5, <1>6, <2>1, <2>2 DEF CatalogKept, Knows
<1>13. DirectoryKept'
  BY <1>6, <1>9 DEF ScansSound, DirectoryKept, WorldIn
<1> QED
  BY <1>10, <1>11, <1>12, <1>13 DEF ScansSound

LEMMA ScanningKeeps ==
  ASSUME ScansSound, IndexSound, OnChain, UNCHANGED blocks, NEW f \in Followers, Scanning(f)
  PROVE  ScansSound'
<1>1. ChainSound(blocks, mined) /\ Tip \in Nat
  BY TipSound DEF IndexSound
<1>2. Progress \in 0..Tip
  <2>1. Progress \in Nat
    BY LengthIs DEF IndexSound, SeenSound, Progress
  <2> QED BY <1>1, <2>1 DEF OnChain
<1>3. ASSUME NEW c \in Callers, Answer(f, c) PROVE ScansSound'
  <2>1. CASE f = "catalog"
    BY <1>1, <1>3, <2>1, CatalogAnswers
  <2>2. CASE f = "directory"
    BY <1>1, <1>3, <2>2, DirectoryAnswers
  <2> QED BY <2>1, <2>2 DEF Followers
<1> QED
  BY <1>1, <1>2, <1>3, StartSyncKeeps, RefusedKeeps, SeedingKeeps, SeededKeeps DEF Scanning

LEMMA ScanNextKeeps ==
  ASSUME ScanInv, [ScanNext]_<<chainVars, indexVars, scanVars>>
  PROVE  ScanInv'
<1>1. IndexSound /\ OnChain /\ ScansSound /\ ChainSound(blocks, mined) /\ Tip \in Nat /\ Sound(Now) /\ Tip = Len(blocks)
  BY TipSound DEF ScanInv, IndexSound, Tip
<1>2. PICK k \in Nat : k = Progress /\ k = Len(seen)
  BY <1>1, LengthIs DEF IndexSound, SeenSound, Progress
<1>3. k <= Tip /\ \A n \in 1..k : blocks[n].id = seen[n]
  BY <1>1, <1>2 DEF OnChain
<1>4. ASSUME blocks' = blocks PROVE Tip <= Len(blocks') /\ Len(blocks') \in Nat /\ Begins(blocks', blocks, Tip)
  BY <1>1, <1>4 DEF Begins
<1>5. CASE AnyTransaction /\ UNCHANGED <<indexVars, scanVars>>
  <2>1. Mined
    BY <1>1, <1>5, EachMined
  <2>2. ChainSound(blocks', mined') /\ Len(blocks') = Tip + 1 /\ Begins(blocks', blocks, Tip)
        /\ blocks'[Tip + 1].id = mined
    BY <1>1, <2>1, MineSound
  <2>3. IndexSound'
    BY <1>1, <1>5, ChainKeeps DEF ChainNext
  <2>4. OnChain'
    <3>1. seen' = seen
      BY <1>5 DEF indexVars
    <3>2. Progress' = k /\ Tip' = Tip + 1
      BY <1>2, <2>2, <3>1 DEF Progress, Tip
    <3>3. \A n \in 1..k : blocks'[n].id = seen[n]
      BY <1>1, <1>3, <2>2 DEF Begins
    <3> QED BY <1>1, <1>3, <3>1, <3>2, <3>3 DEF OnChain
  <2>5. ScansSound'
    <3>1. Len(blocks') \in Nat /\ Tip <= Len(blocks')
      BY <1>1, <2>2
    <3> QED BY <1>1, <1>5, <2>2, <3>1, GrowthKeeps
  <2> QED BY <2>3, <2>4, <2>5 DEF ScanInv
<1>6. CASE Indexing /\ UNCHANGED scanVars
  <2>1. IndexSound'
    BY <1>1, <1>6, CommitKeeps, RedeliverKeeps, RollbackKeeps DEF Indexing
  <2>2. blocks' = blocks
    BY <1>6 DEF Indexing, Commit, Redeliver, Rollback, chainVars
  <2>3. OnChain'
    <3>1. CASE Commit
      <4>1. Progress < Tip /\ seen' = Append(seen, blocks[Progress + 1].id)
        BY <3>1 DEF Commit
      <4>2. PICK e : e = blocks[k + 1].id
        OBVIOUS
      <4>3. Longer(seen', seen, e)
        BY <1>1, <1>2, <4>1, <4>2, Appended DEF IndexSound, SeenSound
      <4>4. Len(seen') = k + 1 /\ seen'[k + 1] = e /\ \A n \in 1..k : seen'[n] = seen[n]
        BY <1>2, <4>3 DEF Longer
      <4>5. \A n \in 1..(k + 1) : n = k + 1 \/ n \in 1..k
        OBVIOUS
      <4>6. \A n \in 1..(k + 1) : blocks[n].id = seen'[n]
        BY <1>3, <4>2, <4>4, <4>5
      <4>7. Progress' = k + 1 /\ Tip' = Tip /\ k + 1 <= Tip
        BY <1>1, <1>2, <2>2, <4>1, <4>4 DEF Progress, Tip
      <4> QED BY <2>2, <4>6, <4>7 DEF OnChain
    <3>2. CASE Redeliver
      <4>1. seen' = seen
        BY <3>2 DEF Redeliver
      <4> QED BY <1>1, <2>2, <4>1 DEF OnChain, Progress, Tip
    <3>3. ~Rollback
      BY <1>1 DEF Rollback
    <3> QED BY <1>6, <3>1, <3>2, <3>3 DEF Indexing
  <2>4. ScansSound'
    BY <1>1, <1>4, <1>6, <2>2, GrowthKeeps
  <2> QED BY <2>1, <2>3, <2>4 DEF ScanInv
<1>7. ASSUME UNCHANGED <<chainVars, indexVars>> PROVE IndexSound' /\ OnChain' /\ blocks' = blocks
  <2>1. blocks' = blocks /\ mined' = mined /\ tables' = tables /\ seen' = seen
    BY <1>7 DEF chainVars, indexVars
  <2>2. Progress' = Progress /\ (OnChain' <=> OnChain)
    BY <2>1 DEF Progress, OnChain, Tip
  <2> QED BY <1>1, <2>1, <2>2 DEF IndexSound
<1>8. CASE (\E f \in Followers : Scanning(f)) /\ UNCHANGED <<chainVars, indexVars>>
  BY <1>1, <1>7, <1>8, ScanningKeeps DEF ScanInv
<1>9. CASE UNCHANGED <<chainVars, indexVars, scanVars>>
  <2>1. IndexSound' /\ OnChain' /\ blocks' = blocks
    BY <1>7, <1>9
  <2>2. ScansSound'
    BY <1>1, <1>4, <1>9, <2>1, GrowthKeeps
  <2> QED BY <2>1, <2>2 DEF ScanInv
<1> QED
  BY <1>5, <1>6, <1>8, <1>9 DEF ScanNext

\* THEOREM.  However the syncs of several loops overlap, fail and are repeated while
\* the chain grows and the indexer seeds the catalog: the catalog has every series
\* of the blocks it passed, but for what a seeding missed; and the directory, unless
\* its position was set back, has the balances of the ledger.
THEOREM ScansStayExact == ScanSpec => [](CatalogGap /\ DirectoryExact)
<1>1. ScanSpec => []ScanInv
  BY ScansInitSound, ScanNextKeeps, PTL DEF ScanSpec
<1>2. ASSUME ScanInv PROVE CatalogGap /\ DirectoryExact
  <2>1. \A n : WorldAt(n) = WorldIn(blocks, n)
    BY DEF WorldAt, WorldIn
  <2>2. Tip \in Nat
    BY <1>2, TipSound DEF ScanInv, IndexSound
  <2>3. CatalogGap
    BY <1>2, <2>1 DEF ScanInv, ScansSound, CatalogKept, Knows, CatalogGap
  <2>4. ASSUME ~rewound, next["directory"] = Tip + 1 PROVE balances = Now.bal
    <3>1. next["directory"] - 1 = Tip
      BY <2>2, <2>4
    <3> QED BY <1>2, <2>1, <2>4, <3>1 DEF ScanInv, ScansSound, DirectoryKept, Now
  <2> QED BY <2>3, <2>4 DEF DirectoryExact
<1> QED
  BY <1>1, <1>2, PTL

-----------------------------------------------------------------------------
(* 2. The monitor: a mismatch is not the index's own                       *)

\* A price that moves emits no log and changes nothing the tables tell.
LEMMA BelowStep ==
  ASSUME NEW w \in Worlds, NEW b \in SUBSET Accounts, NEW v, v = [w EXCEPT !.below = b]
  PROVE  v \in Worlds /\ Alike(v, w, WorldFields \ {"below"})
BY DEF Worlds, Alike, WorldFields

LEMMA BelowSent ==
  ASSUME NEW w, Sound(w), NEW v, v \in Worlds, Alike(v, w, WorldFields \ {"below"})
  PROVE  Sound(v) /\ Passes(<<>>, w, v) /\ Tracked(<<>>, w, v)
<1>1. /\ v.opened = w.opened /\ v.cash = w.cash /\ v.listed = w.listed /\ v.bal = w.bal /\ v.held = w.held
      /\ v.group = w.group /\ v.auction = w.auction /\ v.fund = w.fund /\ v.market = w.market
      /\ v.size = w.size /\ v.left = w.left /\ v.orders = w.orders
      /\ v.approved = w.approved /\ v.enabled = w.enabled /\ v.closeOnly = w.closeOnly
      /\ v.seq = w.seq /\ v.nodes = w.nodes
  BY DEF Alike, WorldFields
<1>2. \A t : Tells(t, w) <=> Tells(t, v)
  BY <1>1 DEF Tells
<1>3. Sound(v)
  BY <1>1 DEF Sound, OpenedFirst, ListedFirst, GroupedFirst, Counted, InIt, InGroup, LeftOver
<1>4. Passes(<<>>, w, w) /\ Len(<<>>) = 0
  BY NoneSent
<1>5. Passes(<<>>, w, v)
  BY <1>2, <1>4 DEF Passes, Done
<1>6. Tracked(<<>>, w, v)
  <2>1. PICK p : p = [i \in {0} |-> w]
    OBVIOUS
  <2>2. Same(p[0], w) /\ Same(p[0], v)
    BY <1>1, <2>1 DEF Same
  <2>3. Path(p, <<>>, w, v)
    BY <1>4, <2>2 DEF Path
  <2> QED BY <1>1, <1>4, <2>3 DEF Tracked, BalancesRun
<1> QED
  BY <1>3, <1>5, <1>6

LEMMA RepriceMined ==
  ASSUME Sound(Now), Reprice
  PROVE  Mined
<1>0. Start.world.below \in SUBSET Accounts
  BY DEF Start, Sound, Worlds
<1>1. PICK b \in SUBSET Accounts : Mine([Start EXCEPT !.world.below = b])
  <2>1. PICK a \in Accounts : Mine([Start EXCEPT !.world.below = IF a \in @ THEN @ \ {a} ELSE @ \cup {a}])
    BY DEF Reprice
  <2>2. PICK b : b = IF a \in Start.world.below THEN Start.world.below \ {a} ELSE Start.world.below \cup {a}
    OBVIOUS
  <2>3. b \in SUBSET Accounts
    BY <1>0, <2>2
  <2>4. Mine([Start EXCEPT !.world.below = b])
    BY <2>1, <2>2
  <2> QED BY <2>3, <2>4
<1>a. PICK d : Mine(d) /\ d = [Start EXCEPT !.world.below = b]
  BY <1>1
<1>2. Start = [world |-> Now, logs |-> <<>>] /\ Now \in Worlds
  BY DEF Start, Sound
<1>3. PICK v : v = [Now EXCEPT !.below = b]
  OBVIOUS
<1>4. d = [world |-> v, logs |-> <<>>]
  BY <1>a, <1>2, <1>3
<1>5. Sound(v) /\ Passes(<<>>, Now, v) /\ Tracked(<<>>, Now, v) /\ IsSeq(<<>>)
  BY <1>2, <1>3, BelowStep, BelowSent, NoneSent
<1>6. Good(d, Now)
  BY <1>4, <1>5 DEF Good, Sent, IsDraft
<1>7. v.bal = Now.bal /\ v.held = Now.held /\ v.group = Now.group /\ d.world = v
  BY <1>2, <1>3, <1>4 DEF Worlds
<1>8. Even(Now) => Even(d.world)
  BY <1>7, EvenUntouched DEF Untouched, SameStage
<1> QED
  BY <1>a, <1>6, <1>8 DEF Mined


-----------------------------------------------------------------------------
(* Sums over the accounts that are opened *)

\* The first element taken need not be the first.
AnyFirst(h, g, s) == \A x \in s : h[s] = g[x] + h[s \ {x}]

LEMMA AddsAny ==
  ASSUME NEW S, IsFiniteSet(S), NEW g \in [S -> Int], NEW h \in [SUBSET S -> Int], Adds(h, g, S)
  PROVE  \A s \in SUBSET S : AnyFirst(h, g, s)
<1> DEFINE C == {m \in Nat : \A s \in SUBSET S : Cardinality(s) = m => \A x \in s : h[s] = g[x] + h[s \ {x}]}
<1>1. 0 \in C
  <2>1. \A s \in SUBSET S : Cardinality(s) = 0 => s = {}
    BY FS_Subset, FS_EmptySet
  <2> QED BY <2>1
<1>2. ASSUME NEW k \in Nat, k \in C PROVE k + 1 \in C
  <2>1. ASSUME NEW s \in SUBSET S, Cardinality(s) = k + 1, NEW x \in s PROVE h[s] = g[x] + h[s \ {x}]
    <3>1. PICK y : y = First(s)
      OBVIOUS
    <3>2. y \in s /\ h[s] = g[y] + h[s \ {y}]
      BY <3>1, FirstIn DEF Adds
    <3>3. CASE y = x
      BY <3>2, <3>3
    <3>4. CASE y # x
      <4>1. IsFiniteSet(s) /\ Cardinality(s \ {y}) = k /\ Cardinality(s \ {x}) = k
        <5>1. IsFiniteSet(s)
          BY FS_Subset
        <5>2. Cardinality(s \ {y}) = Cardinality(s) - 1 /\ Cardinality(s \ {x}) = Cardinality(s) - 1
          BY <3>2, <5>1, FS_RemoveElement
        <5> QED BY <2>1, <5>1, <5>2
      <4>2. PICK r : r = (s \ {y}) \ {x}
        OBVIOUS
      <4>3. r = (s \ {x}) \ {y} /\ r \in SUBSET S
        BY <4>2
      <4>4. h[s \ {y}] = g[x] + h[r]
        <5>1. x \in s \ {y} /\ s \ {y} \in SUBSET S
          BY <3>4
        <5> QED BY <1>2, <4>1, <4>2, <5>1
      <4>5. h[s \ {x}] = g[y] + h[r]
        <5>1. y \in s \ {x} /\ s \ {x} \in SUBSET S
          BY <3>2, <3>4
        <5> QED BY <1>2, <4>1, <4>3, <5>1
      <4>6. g[x] \in Int /\ g[y] \in Int /\ h[r] \in Int
        BY <3>2, <4>3
      <4> QED BY <3>2, <4>4, <4>5, <4>6
    <3> QED BY <3>3, <3>4
  <2> QED BY <2>1
<1>3. \A m \in Nat : m \in C
  <2> HIDE DEF C
  <2> QED BY <1>1, <1>2, CountInduction
<1>4. ASSUME NEW s \in SUBSET S PROVE \A x \in s : h[s] = g[x] + h[s \ {x}]
  <2>1. Cardinality(s) \in Nat
    BY FS_Subset, FS_CardinalityType
  <2> QED BY <1>3, <2>1
<1> QED
  BY <1>4 DEF AnyFirst

\* What is nothing outside a subset adds up to what the subset does.
LEMMA AddsWithin ==
  ASSUME NEW S, IsFiniteSet(S), NEW g \in [S -> Int], NEW h \in [SUBSET S -> Int], Adds(h, g, S),
         NEW o \in SUBSET S, \A x \in S \ o : g[x] = 0
  PROVE  h[S] = h[o]
<1> DEFINE G == {s \in SUBSET S : h[s] = h[s \cap o]}
<1>1. {} \in G
  OBVIOUS
<1>2. ASSUME NEW s \in SUBSET S, s # {}, s \ {First(s)} \in G PROVE s \in G
  <2>1. PICK x : x = First(s)
    OBVIOUS
  <2>2. x \in s /\ x \in S /\ h[s] = g[x] + h[s \ {x}]
    BY <1>2, <2>1, FirstIn DEF Adds
  <2>3. h[s \ {x}] = h[(s \ {x}) \cap o]
    BY <1>2, <2>1
  <2>4. CASE x \in o
    <3>1. (s \ {x}) \cap o = (s \cap o) \ {x} /\ x \in s \cap o /\ s \cap o \in SUBSET S
      BY <2>2, <2>4
    <3>2. h[s \cap o] = g[x] + h[(s \cap o) \ {x}]
      <4>1. AnyFirst(h, g, s \cap o)
        BY <3>1, AddsAny
      <4> QED BY <3>1, <4>1 DEF AnyFirst
    <3> QED BY <2>2, <2>3, <3>1, <3>2
  <2>5. CASE x \notin o
    <3>1. (s \ {x}) \cap o = s \cap o /\ g[x] = 0 /\ s \cap o \in SUBSET S
      BY <2>2, <2>5
    <3>2. h[s \cap o] \in Int
      BY <3>1
    <3>3. h[s \ {x}] = h[s \cap o]
      BY <2>3, <3>1
    <3>4. h[s] = h[s \cap o]
      BY <2>2, <3>1, <3>2, <3>3
    <3> QED BY <3>4
  <2> QED BY <2>4, <2>5
<1>3. \A s \in SUBSET S : s \in G
  <2> HIDE DEF G
  <2> QED BY <1>1, <1>2, SubsetInduction
<1>4. S \cap o = o
  OBVIOUS
<1> QED
  BY <1>3, <1>4

RowSum(S, row) == SumOver(S, LAMBDA a : row[a])

IsRowOf(g, S, row) == g = [a \in S |-> row[a]]

LEMMA RowAdds ==
  ASSUME NEW S, IsFiniteSet(S), NEW row, NEW g \in [S -> Int], IsRowOf(g, S, row),
         NEW h \in [SUBSET S -> Int], Adds(h, g, S)
  PROVE  RowSum(S, row) = h[S]
<1> DEFINE Is(j) == j = [r \in SUBSET S |-> IF r = {} THEN 0 ELSE LET x == First(r) IN row[x] + j[r \ {x}]]
           H == CHOOSE j : Is(j)
<1>3. \A r \in SUBSET S : r # {} => g[First(r)] = row[First(r)]
  BY FirstIn DEF IsRowOf
<1>4. Is(h)
  <2>1. \A r \in SUBSET S : h[r] = IF r = {} THEN 0 ELSE row[First(r)] + h[r \ {First(r)}]
    BY <1>3 DEF Adds
  <2> QED BY <2>1
<1>5. Is(H)
  BY <1>4
<1>6. RowSum(S, row) = H[S]
  BY DEF RowSum, SumOver, FoldSet, MapThenFoldSet, First
<1> HIDE DEF H
<1>7. \A r \in SUBSET S : H[r] = IF r = {} THEN 0 ELSE g[First(r)] + H[r \ {First(r)}]
  BY <1>3, <1>5
<1>8. Adds(H, g, S)
  BY <1>7 DEF Adds
<1>9. H[S] = h[S]
  BY <1>8, AddsSame
<1> QED
  BY <1>6, <1>9

LEMMA SumOfOpened ==
  ASSUME NEW S, IsFiniteSet(S), NEW cash \in [S -> Int], NEW o \in SUBSET S, \A a \in S \ o : cash[a] = 0,
         NEW row, row = [a \in o |-> cash[a]]
  PROVE  RowSum(S, cash) = RowSum(o, row)
<1>1. PICK h \in [SUBSET S -> Int] : Adds(h, cash, S)
  BY AddsExists
<1>2. cash = [a \in S |-> cash[a]]
  OBVIOUS
<1>3. RowSum(S, cash) = h[S]
  BY <1>1, <1>2, RowAdds DEF IsRowOf
<1>4. h[S] = h[o]
  BY <1>1, AddsWithin
<1>5. PICK k : k = [s \in SUBSET o |-> h[s]]
  OBVIOUS
<1>6. k \in [SUBSET o -> Int] /\ IsFiniteSet(o) /\ k[o] = h[o]
  BY <1>5, FS_Subset
<1>7. Adds(k, row, o)
  <2>1. ASSUME NEW s \in SUBSET o PROVE k[s] = IF s = {} THEN 0 ELSE row[First(s)] + k[s \ {First(s)}]
    <3>1. k[s] = h[s] /\ k[s \ {First(s)}] = h[s \ {First(s)}] /\ s \in SUBSET S
      BY <1>5
    <3>2. s # {} => row[First(s)] = cash[First(s)]
      BY FirstIn
    <3> QED BY <1>1, <3>1, <3>2 DEF Adds
  <2> QED BY <2>1 DEF Adds
<1>8. row = [a \in o |-> row[a]] /\ row \in [o -> Int]
  OBVIOUS
<1>9. RowSum(o, row) = k[o]
  BY <1>6, <1>7, <1>8, RowAdds DEF IsRowOf
<1> QED
  BY <1>3, <1>4, <1>6, <1>9


-----------------------------------------------------------------------------
(* A pass of the reconciliation while nothing moves *)

ReconOf(st, at, level, rows, left, found) ==
  [st |-> st, at |-> at, level |-> level, rows |-> rows, left |-> left, found |-> found]

Stages == {"rows", "accounts", "series", "groups", "custody"}

\* The rows read so far are what the contracts hold.
Fits(rows, left) ==
  /\ "account" \notin left => "account" \in DOMAIN rows /\ AccountsTold(rows["account"], Now.opened, Now.cash)
  /\ "series" \notin left => "series" \in DOMAIN rows /\ SeriesTold(rows["series"], Now.listed, Now.bal, Now.held)
  /\ "group" \notin left => "group" \in DOMAIN rows /\ GroupTold(rows["group"], Now.listed, Now.group)

\* The moment a pass began is not to come again.
Past(at) == \E m, k \in Nat : at[1] = m /\ DOMAIN at[2] = 1..k /\ m <= mined /\ (m = mined => Tip <= k)

ReconSound == recon # NoRecon =>
  /\ recon.st \in Stages /\ recon = ReconOf(recon.st, recon.at, recon.level, recon.rows, recon.left, recon.found)
  /\ Past(recon.at)
  /\ recon.level /\ recon.at = Moment =>
       /\ seen = Ids /\ recon.found = {} /\ Fits(recon.rows, recon.left)
       /\ recon.st # "rows" => recon.left = {}

MonInv == IndexSound /\ ReconSound /\ MismatchMeansMoved

LEMMA MomentIs ==
  ASSUME ChainSound(blocks, mined)
  PROVE  /\ Tip \in Nat /\ mined \in Nat /\ Moment = <<mined, Ids>> /\ DOMAIN Ids = 1..Tip
         /\ Past(Moment)
<1>1. Tip \in Nat /\ mined \in Nat
  BY TipSound DEF ChainSound
<1>2. Moment = <<mined, Ids>> /\ DOMAIN Ids = 1..Tip
  BY DEF Moment, Ids
<1> QED
  BY <1>1, <1>2 DEF Past

\* The index has read the whole chain.
LEMMA LevelIndex ==
  ASSUME IndexSound, seen = Ids
  PROVE  Progress = Tip /\ OnChain /\ Tells(tables, Now) /\ IsTables(tables)
<1>1. ChainSound(blocks, mined) /\ SeenSound(seen, mined)
  BY DEF IndexSound
<1>2. Tip \in Nat /\ Now = WorldIn(blocks, Tip)
  BY <1>1, TipSound
<1>3. DOMAIN seen = 1..Tip
  BY DEF Ids
<1>4. PICK k \in Nat : k = Len(seen) /\ DOMAIN seen = 1..k
  BY <1>1, LengthIs DEF SeenSound
<1>5. k = Tip
  <2>1. 1..k = 1..Tip
    BY <1>3, <1>4
  <2>2. CASE k < Tip
    <3>1. Tip \in 1..Tip /\ Tip \notin 1..k
      BY <1>2, <2>2
    <3> QED BY <2>1, <3>1
  <2>3. CASE k > Tip
    <3>1. k \in 1..k /\ k \notin 1..Tip
      BY <1>2, <2>3
    <3> QED BY <2>1, <3>1
  <2> QED BY <1>2, <2>2, <2>3
<1>6. Progress = Tip /\ OnChain
  <2>1. \A n \in 1..Tip : blocks[n].id = seen[n]
    BY DEF Ids
  <2> QED BY <1>2, <1>4, <1>5, <2>1 DEF Progress, OnChain
<1>7. TablesOf(tables, blocks, Tip)
  BY <1>6 DEF IndexSound
<1> QED
  BY <1>2, <1>6, <1>7 DEF TablesOf

LEMMA NoDifferences ==
  ASSUME Sound(Now), Fits(recon.rows, {}), NEW stage \in {"accounts", "series", "groups", "custody"}
  PROVE  Differences(stage) = {}
<1>1. Now \in Worlds /\ OpenedFirst(Now)
  BY DEF Sound
<1>2. PICK rows : rows = recon.rows
  OBVIOUS
<1>3. rows["account"] = [a \in Now.opened |-> Now.cash[a]]
  BY <1>2 DEF Fits, AccountsTold
<1>4. CASE stage = "accounts"
  <2>1. DOMAIN recon.rows.account = Now.opened /\ \A a \in Now.opened : recon.rows.account[a] = Now.cash[a]
    BY <1>2, <1>3
  <2> QED BY <1>4, <2>1 DEF Differences
<1>5. CASE stage = "series"
  <2>1. SeriesTold(recon.rows.series, Now.listed, Now.bal, Now.held)
    BY DEF Fits
  <2>2. \A s \in DOMAIN recon.rows.series :
          /\ recon.rows.series[s].long = LongOf(Now.bal, s) /\ recon.rows.series[s].short = ShortOf(Now.bal, s)
          /\ recon.rows.series[s].supply = SupplyOf(Now.held, s)
    BY <2>1 DEF SeriesTold
  <2>3. \A s \in DOMAIN recon.rows.series :
          /\ recon.rows.series[s].long = SumOver(Accounts, LAMBDA a : Max0(Now.bal[a][s]))
          /\ recon.rows.series[s].short = SumOver(Accounts, LAMBDA a : Max0(-Now.bal[a][s]))
          /\ recon.rows.series[s].supply = SumOver(Holders, LAMBDA h : Now.held[h][s])
    BY <2>2 DEF LongOf, ShortOf, SupplyOf
  <2> QED BY <1>5, <2>3 DEF Differences
<1>6. CASE stage = "groups"
  <2>1. GroupTold(recon.rows.group, Now.listed, Now.group)
    BY DEF Fits
  <2>2. \A g \in DOMAIN recon.rows.group : recon.rows.group[g] = Now.group
    BY <2>1 DEF GroupTold, NoRows
  <2> QED BY <1>6, <2>2 DEF Differences
<1>7. CASE stage = "custody"
  <2>1. Now.cash \in [Accounts -> Int] /\ Now.opened \in SUBSET Accounts /\ \A a \in Accounts \ Now.opened : Now.cash[a] = 0
    BY <1>1 DEF Worlds, OpenedFirst
  <2>2. recon.rows.account = [a \in Now.opened |-> Now.cash[a]]
    BY <1>2, <1>3
  <2>3. RowSum(Accounts, Now.cash) = RowSum(Now.opened, recon.rows.account)
    BY <2>1, <2>2, SumOfOpened, ChainAssumption
  <2>4. DOMAIN recon.rows.account = Now.opened
    BY <2>2
  <2> QED BY <1>7, <2>3, <2>4 DEF Differences, RowSum
<1> QED
  BY <1>4, <1>5, <1>6, <1>7

\* Whatever is mined or dropped, the moment of a pass is over.
LEMMA MovesEndMoment ==
  ASSUME ChainSound(blocks, mined), ChainSound(blocks', mined'), Mined \/ Fork, NEW at, Past(at)
  PROVE  Past(at)' /\ at # Moment'
<1>1. Tip \in Nat /\ mined \in Nat /\ Tip = Len(blocks)
  BY TipSound DEF ChainSound, Tip
<1>2. PICK m, k \in Nat : at[1] = m /\ DOMAIN at[2] = 1..k /\ m <= mined /\ (m = mined => Tip <= k)
  BY DEF Past
<1>3. Moment' = <<mined', Ids'>> /\ DOMAIN Ids' = 1..Tip'
  BY DEF Moment, Ids
<1>4. CASE Mined
  <2>1. mined' = mined + 1
    BY <1>4 DEF Mined, Mine
  <2>2. m # mined' /\ m <= mined'
    BY <1>1, <1>2, <2>1
  <2> QED BY <1>2, <1>3, <2>2 DEF Past
<1>5. CASE Fork
  <2>1. Tip' = Tip - 1 /\ mined' = mined
    BY <1>5, ForkSound DEF Fork, Tip
  <2>2. m = mined => DOMAIN at[2] # 1..Tip'
    <3> SUFFICES ASSUME m = mined PROVE k \in 1..k /\ k \notin 1..Tip'
      BY <1>2
    <3>1. Tip > 1
      BY <1>5 DEF Fork
    <3> QED BY <1>1, <1>2, <2>1, <3>1
  <2>3. Past(at)'
    <3>1. m <= mined' /\ (m = mined' => Tip' <= k)
      BY <1>1, <1>2, <2>1
    <3> QED BY <1>2, <3>1 DEF Past
  <2> QED BY <1>2, <1>3, <2>1, <2>2, <2>3
<1> QED
  BY <1>4, <1>5


LEMMA MonitorInitSound ==
  ASSUME IndexInit, MonitorInit
  PROVE  MonInv
<1>1. IndexSound
  BY IndexInitSound
<1> QED
  BY <1>1 DEF MonitorInit, MonInv, ReconSound, MismatchMeansMoved, Clean

LEMMA MoveKeeps ==
  ASSUME MonInv, Mined \/ Fork, UNCHANGED indexVars, UNCHANGED monitorVars
  PROVE  MonInv'
<1>1. IndexSound /\ IndexSound'
  BY BlockKeeps DEF MonInv
<1>2. ChainSound(blocks, mined) /\ ChainSound(blocks', mined')
  BY <1>1 DEF IndexSound
<1>3. recon' = recon /\ mismatches' = mismatches
  BY DEF monitorVars
<1>4. ASSUME recon # NoRecon PROVE Past(recon.at)' /\ recon.at # Moment'
  <2>1. PICK at : at = recon.at
    OBVIOUS
  <2>2. Past(at) /\ at' = at
    BY <1>4, <2>1 DEF MonInv, ReconSound
  <2>3. Past(at)' /\ at # Moment'
    BY <1>2, <2>2, MovesEndMoment
  <2> QED BY <1>3, <2>1, <2>3 DEF Past
<1>5. ReconSound'
  BY <1>3, <1>4 DEF MonInv, ReconSound
<1> QED
  BY <1>1, <1>3, <1>5 DEF MonInv, MismatchMeansMoved

LEMMA LevelRests ==
  ASSUME IndexSound, seen = Ids, Indexing
  PROVE  seen' = seen
<1>1. Progress = Tip /\ OnChain /\ Tip \in Nat
  BY LevelIndex, TipSound DEF IndexSound
<1>2. ~Commit /\ ~Rollback
  BY <1>1 DEF Commit, Rollback
<1> QED
  BY <1>2 DEF Indexing, Redeliver

LEMMA SameMoment ==
  ASSUME UNCHANGED chainVars
  PROVE  Moment' = Moment /\ Ids' = Ids /\ Now' = Now /\ Tip' = Tip /\ mined' = mined
BY DEF chainVars, Moment, Ids, Now, WorldAt, Tip

LEMMA IndexingKeeps ==
  ASSUME MonInv, Indexing, UNCHANGED monitorVars
  PROVE  MonInv'
<1>1. IndexSound /\ IndexSound'
  BY CommitKeeps, RedeliverKeeps, RollbackKeeps DEF Indexing, MonInv
<1>2. UNCHANGED chainVars
  BY DEF Indexing, Commit, Redeliver, Rollback
<1>3. Moment' = Moment /\ Ids' = Ids /\ Now' = Now /\ Tip' = Tip /\ mined' = mined
  BY <1>2, SameMoment
<1>4. recon' = recon /\ mismatches' = mismatches
  BY DEF monitorVars
<1>5. ASSUME recon # NoRecon PROVE ReconSound'
  <2>1. Past(recon.at)'
    BY <1>3, <1>4, <1>5 DEF MonInv, ReconSound, Past
  <2>2. ASSUME recon.level, recon.at = Moment PROVE seen' = Ids
    <3>1. seen = Ids
      BY <1>5, <2>2 DEF MonInv, ReconSound
    <3> QED BY <1>1, <3>1, LevelRests
  <2>3. Fits(recon.rows, recon.left)' <=> Fits(recon.rows, recon.left)
    BY <1>3, <1>4 DEF Fits
  <2> QED BY <1>3, <1>4, <1>5, <2>1, <2>2, <2>3 DEF MonInv, ReconSound
<1>6. ReconSound'
  BY <1>4, <1>5 DEF ReconSound
<1> QED
  BY <1>1, <1>4, <1>6 DEF MonInv, MismatchMeansMoved

LEMMA StartKeeps ==
  ASSUME MonInv, UNCHANGED <<chainVars, indexVars>>, StartReconcile
  PROVE  ReconSound'
<1>1. PICK r : r = ReconOf("rows", Moment, seen = Ids, NoRows, {"account", "series", "group"}, {})
  OBVIOUS
<1>2. recon' = r
  BY <1>1 DEF StartReconcile, ReconOf
<1>3. Moment' = Moment /\ Ids' = Ids /\ Now' = Now /\ Tip' = Tip /\ mined' = mined /\ seen' = seen
  BY SameMoment DEF indexVars
<1>4. /\ r.st = "rows" /\ r.at = Moment /\ (r.level <=> seen = Ids) /\ r.left = {"account", "series", "group"} /\ r.found = {}
      /\ r = ReconOf(r.st, r.at, r.level, r.rows, r.left, r.found)
  BY <1>1 DEF ReconOf
<1>5. Past(Moment)'
  BY <1>3, MomentIs DEF MonInv, IndexSound, Past
<1>6. recon'.at = Moment'
  BY <1>2, <1>3, <1>4
<1>7. Past(recon.at)'
  BY <1>5, <1>6 DEF Past
<1>8. Fits(recon.rows, recon.left)'
  BY <1>2, <1>4 DEF Fits
<1>9. /\ recon'.st \in Stages /\ recon'.st = "rows" /\ recon'.found = {} /\ (recon'.level => seen' = Ids')
      /\ recon' = ReconOf(recon'.st, recon'.at, recon'.level, recon'.rows, recon'.left, recon'.found)
  BY <1>2, <1>3, <1>4 DEF Stages
<1> QED
  BY <1>7, <1>8, <1>9 DEF ReconSound


\* What a step of the pass writes, the chain and the index at rest.
LEMMA PassMoves ==
  ASSUME MonInv, UNCHANGED <<chainVars, indexVars>>, recon # NoRecon, NEW r, NEW st \in Stages, NEW rows, NEW left, NEW found,
         r = ReconOf(st, recon.at, recon.level, rows, left, found), recon' = r,
         recon.level /\ recon.at = Moment => found = {} /\ Fits(rows, left) /\ (st # "rows" => left = {})
  PROVE  ReconSound'
<1>1. Moment' = Moment /\ Ids' = Ids /\ Now' = Now /\ Tip' = Tip /\ mined' = mined /\ seen' = seen
  BY SameMoment DEF indexVars
<1>2. /\ r.st = st /\ r.at = recon.at /\ r.level = recon.level /\ r.rows = rows /\ r.left = left /\ r.found = found
      /\ r = ReconOf(r.st, r.at, r.level, r.rows, r.left, r.found)
  BY DEF ReconOf
<1>3. Past(recon.at) /\ (recon.level /\ recon.at = Moment => seen = Ids)
  BY DEF MonInv, ReconSound
<1>4. Past(recon.at)'
  BY <1>1, <1>2, <1>3 DEF Past
<1>5. Fits(recon.rows, recon.left)' <=> Fits(rows, left)
  BY <1>1, <1>2 DEF Fits
<1> QED
  BY <1>1, <1>2, <1>3, <1>4, <1>5 DEF ReconSound

LEMMA ReadRowsKeeps ==
  ASSUME MonInv, UNCHANGED <<chainVars, indexVars>>, ReadRows
  PROVE  ReconSound'
<1>1. PICK table \in {"account", "series", "group"} :
        /\ recon.st = "rows" /\ table \in recon.left
        /\ recon' = [recon EXCEPT !.rows = Put(recon.rows, table, tables[table]), !.left = recon.left \ {table},
                                  !.st = IF recon.left = {table} THEN "accounts" ELSE "rows"]
  BY DEF ReadRows
<1>2. recon # NoRecon
  BY <1>1 DEF NoRecon
<1>3. recon = ReconOf(recon.st, recon.at, recon.level, recon.rows, recon.left, recon.found)
  BY <1>2 DEF MonInv, ReconSound
<1>4. PICK rows, left, st : /\ rows = Put(recon.rows, table, tables[table]) /\ left = recon.left \ {table}
                            /\ st = IF recon.left = {table} THEN "accounts" ELSE "rows"
  OBVIOUS
<1>5. PICK r : r = ReconOf(st, recon.at, recon.level, rows, left, recon.found)
  OBVIOUS
<1>6. recon' = r
  <2>1. PICK a, b, c, d, e, f : /\ a = recon.st /\ b = recon.at /\ c = recon.level
                                /\ d = recon.rows /\ e = recon.left /\ f = recon.found
    OBVIOUS
  <2>2. PICK old : old = ReconOf(a, b, c, d, e, f) /\ old = recon
    BY <1>3, <2>1
  <2>3. recon' = [old EXCEPT !.rows = rows, !.left = left, !.st = st]
    BY <1>1, <1>4, <2>2
  <2>4. [old EXCEPT !.rows = rows, !.left = left, !.st = st] = ReconOf(st, b, c, rows, left, f)
    <3>1. old = [st |-> a, at |-> b, level |-> c, rows |-> d, left |-> e, found |-> f]
      BY <2>2 DEF ReconOf
    <3>2. PICK p0 : p0 = [st |-> a, at |-> b, level |-> c, rows |-> rows, left |-> e, found |-> f]
      OBVIOUS
    <3>3. [old EXCEPT !.rows = rows] = p0
      BY <3>2, <3>1
    <3>4. PICK p1 : p1 = [st |-> a, at |-> b, level |-> c, rows |-> rows, left |-> left, found |-> f]
      OBVIOUS
    <3>5. [p0 EXCEPT !.left = left] = p1
      BY <3>4, <3>2
    <3>6. [p1 EXCEPT !.st = st] = ReconOf(st, b, c, rows, left, f)
      BY <3>4 DEF ReconOf
    <3>7. [old EXCEPT !.rows = rows, !.left = left, !.st = st]
          = [[[old EXCEPT !.rows = rows] EXCEPT !.left = left] EXCEPT !.st = st]
      OBVIOUS
    <3> QED BY <3>3, <3>5, <3>6, <3>7
  <2> QED BY <1>5, <2>1, <2>3, <2>4
<1>7. ASSUME recon.level, recon.at = Moment
      PROVE  recon.found = {} /\ Fits(rows, left) /\ (st # "rows" => left = {})
  <2>1. seen = Ids /\ recon.found = {} /\ Fits(recon.rows, recon.left)
    BY <1>2, <1>7 DEF MonInv, ReconSound
  <2>2. Tells(tables, Now) /\ IsTables(tables)
    BY <2>1, LevelIndex DEF MonInv
  <2>3. \A x : x \in DOMAIN rows <=> x \in DOMAIN recon.rows \/ x = table
    BY <1>4 DEF Put
  <2>4. rows[table] = tables[table] /\ \A x \in DOMAIN recon.rows : x # table => rows[x] = recon.rows[x]
    BY <1>4 DEF Put
  <2>5. /\ tables["account"] = tables.account /\ tables["series"] = tables.series /\ tables["group"] = tables.group
    OBVIOUS
  <2>6. Fits(rows, left)
    <3>1. "account" \notin left => "account" \in DOMAIN rows /\ AccountsTold(rows["account"], Now.opened, Now.cash)
      BY <1>4, <2>1, <2>2, <2>3, <2>4, <2>5 DEF Fits, Tells
    <3>2. "series" \notin left => "series" \in DOMAIN rows /\ SeriesTold(rows["series"], Now.listed, Now.bal, Now.held)
      BY <1>4, <2>1, <2>2, <2>3, <2>4, <2>5 DEF Fits, Tells
    <3>3. "group" \notin left => "group" \in DOMAIN rows /\ GroupTold(rows["group"], Now.listed, Now.group)
      BY <1>4, <2>1, <2>2, <2>3, <2>4, <2>5 DEF Fits, Tells
    <3> QED BY <3>1, <3>2, <3>3 DEF Fits
  <2> QED BY <1>4, <2>1, <2>6
<1>8. st \in Stages
  BY <1>4 DEF Stages
<1> QED
  BY <1>2, <1>5, <1>6, <1>7, <1>8, PassMoves

\* Comparing finds nothing.
LEMMA FoundNothing ==
  ASSUME MonInv, recon # NoRecon, recon.st # "rows", recon.level, recon.at = Moment,
         NEW stage \in {"accounts", "series", "groups", "custody"}
  PROVE  recon.found \cup Differences(stage) = {} /\ recon.left = {} /\ Fits(recon.rows, {})
<1>1. recon.found = {} /\ recon.left = {} /\ Fits(recon.rows, recon.left)
  BY DEF MonInv, ReconSound
<1>2. Fits(recon.rows, {})
  BY <1>1
<1>3. Sound(Now)
  BY TipSound DEF MonInv, IndexSound
<1>4. Differences(stage) = {}
  BY <1>2, <1>3, NoDifferences
<1> QED
  BY <1>1, <1>2, <1>4

LEMMA CompareKeeps ==
  ASSUME MonInv, UNCHANGED <<chainVars, indexVars>>, Compare
  PROVE  ReconSound'
<1>1. /\ recon.st \in {"accounts", "series", "groups"}
      /\ recon' = [recon EXCEPT !.st = After[recon.st], !.found = recon.found \cup Differences(recon.st)]
  BY DEF Compare, After
<1>2. recon # NoRecon
  BY <1>1 DEF NoRecon
<1>3. recon = ReconOf(recon.st, recon.at, recon.level, recon.rows, recon.left, recon.found)
  BY <1>2 DEF MonInv, ReconSound
<1>4. PICK st, found : st = After[recon.st] /\ found = recon.found \cup Differences(recon.st)
  OBVIOUS
<1>5. st \in Stages /\ st # "rows"
  BY <1>1, <1>4 DEF After, Stages
<1>6. PICK r : r = ReconOf(st, recon.at, recon.level, recon.rows, recon.left, found)
  OBVIOUS
<1>7. recon' = r
  <2>1. PICK a, b, c, d, e, f : /\ a = recon.st /\ b = recon.at /\ c = recon.level
                                /\ d = recon.rows /\ e = recon.left /\ f = recon.found
    OBVIOUS
  <2>2. PICK old : old = ReconOf(a, b, c, d, e, f) /\ old = recon
    BY <1>3, <2>1
  <2>3. recon' = [old EXCEPT !.st = st, !.found = found]
    BY <1>1, <1>4, <2>2
  <2>4. [old EXCEPT !.st = st, !.found = found] = ReconOf(st, b, c, d, e, found)
    <3>1. old = [st |-> a, at |-> b, level |-> c, rows |-> d, left |-> e, found |-> f]
      BY <2>2 DEF ReconOf
    <3>2. PICK p0 : p0 = [st |-> st, at |-> b, level |-> c, rows |-> d, left |-> e, found |-> f]
      OBVIOUS
    <3>3. [old EXCEPT !.st = st] = p0
      BY <3>2, <3>1
    <3>4. [p0 EXCEPT !.found = found] = ReconOf(st, b, c, d, e, found)
      BY <3>2 DEF ReconOf
    <3>5. [old EXCEPT !.st = st, !.found = found]
          = [[old EXCEPT !.st = st] EXCEPT !.found = found]
      OBVIOUS
    <3> QED BY <3>3, <3>4, <3>5
  <2> QED BY <1>6, <2>1, <2>3, <2>4
<1>8. ASSUME recon.level, recon.at = Moment PROVE found = {} /\ Fits(recon.rows, recon.left) /\ recon.left = {}
  <2>1. PICK stage \in {"accounts", "series", "groups", "custody"} : stage = recon.st
    BY <1>1
  <2>2. recon.st # "rows"
    BY <1>1
  <2>3. recon.found \cup Differences(stage) = {} /\ recon.left = {} /\ Fits(recon.rows, {})
    BY <1>2, <1>8, <2>2, FoundNothing
  <2> QED BY <1>4, <2>1, <2>3
<1> QED
  BY <1>2, <1>5, <1>6, <1>7, <1>8, PassMoves

LEMMA ReportKeeps ==
  ASSUME MonInv, Report
  PROVE  ReconSound' /\ MismatchMeansMoved'
<1>1. recon.st = "custody" /\ recon' = NoRecon
      /\ mismatches' = [found |-> recon.found \cup Differences("custody"), moved |-> ~recon.level \/ recon.at # Moment]
  BY DEF Report
<1>2. recon # NoRecon
  BY <1>1 DEF NoRecon
<1>3. ASSUME recon.level, recon.at = Moment PROVE recon.found \cup Differences("custody") = {}
  BY <1>1, <1>2, <1>3, FoundNothing
<1> QED
  BY <1>1, <1>3 DEF ReconSound, MismatchMeansMoved

LEMMA MonitorNextKeeps ==
  ASSUME MonInv, [MonitorNext]_<<chainVars, indexVars, monitorVars>>
  PROVE  MonInv'
<1>1. Sound(Now)
  BY TipSound DEF MonInv, IndexSound
<1>2. CASE (ChainNext \/ Reprice) /\ UNCHANGED <<indexVars, monitorVars>>
  <2>1. Mined \/ Fork
    BY <1>1, <1>2, EachMined, RepriceMined DEF ChainNext
  <2> QED BY <1>2, <2>1, MoveKeeps
<1>3. CASE Indexing /\ UNCHANGED monitorVars
  BY <1>3, IndexingKeeps
<1>4. ASSUME UNCHANGED <<chainVars, indexVars>> PROVE IndexSound'
  <2>1. blocks' = blocks /\ mined' = mined /\ tables' = tables /\ seen' = seen
    BY <1>4 DEF chainVars, indexVars
  <2>2. Progress' = Progress /\ (OnChain' <=> OnChain)
    BY <2>1 DEF Progress, OnChain, Tip
  <2> QED BY <2>1, <2>2 DEF IndexSound, MonInv
<1>5. ASSUME UNCHANGED <<chainVars, indexVars>>, recon' = recon PROVE ReconSound'
  <2>1. Moment' = Moment /\ Ids' = Ids /\ Now' = Now /\ Tip' = Tip /\ mined' = mined /\ seen' = seen
    BY <1>5, SameMoment DEF indexVars
  <2> QED BY <1>5, <2>1 DEF MonInv, ReconSound, Past, Fits
<1>6. CASE HealthLoop /\ UNCHANGED <<chainVars, indexVars>>
  <2>1. recon' = recon /\ mismatches' = mismatches
    BY <1>6 DEF HealthLoop, StartHealth, Wait, ReadHealth
  <2> QED BY <1>4, <1>5, <1>6, <2>1 DEF MonInv, MismatchMeansMoved
<1>7. CASE ReconcileLoop /\ UNCHANGED <<chainVars, indexVars>>
  <2>1. ReconSound' /\ (MismatchMeansMoved' \/ mismatches' = mismatches)
    <3>1. CASE StartReconcile
      BY <1>7, <3>1, StartKeeps DEF StartReconcile
    <3>2. CASE ReadRows
      BY <1>7, <3>2, ReadRowsKeeps DEF ReadRows
    <3>3. CASE Compare
      BY <1>7, <3>3, CompareKeeps DEF Compare
    <3>4. CASE Report
      BY <3>4, ReportKeeps
    <3> QED BY <1>7, <3>1, <3>2, <3>3, <3>4 DEF ReconcileLoop
  <2> QED BY <1>4, <1>7, <2>1 DEF MonInv, MismatchMeansMoved
<1>8. CASE UNCHANGED <<chainVars, indexVars, monitorVars>>
  <2>1. recon' = recon /\ mismatches' = mismatches
    BY <1>8 DEF monitorVars
  <2> QED BY <1>4, <1>5, <1>8, <2>1 DEF MonInv, MismatchMeansMoved
<1> QED
  BY <1>2, <1>3, <1>6, <1>7, <1>8 DEF MonitorNext

\* THEOREM.  However transactions, dropped blocks, repeated logs, moves of the
\* margins and the three queries interleave with the comparisons: what the monitor
\* reports as a mismatch while nothing moved and the index had read the whole chain
\* is none; the report says so of every other.
THEOREM MismatchesAreExplained == MonitorSpec => []MismatchMeansMoved
<1>1. MonitorSpec => []MonInv
  BY MonitorInitSound, MonitorNextKeeps, PTL DEF MonitorSpec
<1>2. MonInv => MismatchMeansMoved
  BY DEF MonInv
<1> QED
  BY <1>1, <1>2, PTL

-----------------------------------------------------------------------------
(* 3. The lists of the app, from all the logs of the chain                 *)

\* The places of a kind of log among U.
Opening(U) == {at \in U : LogAt(at).ev = "SubAccountCreated"}
Starting(U, a) == {at \in U : Starts(LogAt(at), a)}
Ending(U, a) == {at \in U : Ends(LogAt(at), a)}
Updating(U, a, s) == {at \in U : Sets(LogAt(at), a, s)}

\* A start that no end comes after; the last balance told.
LastStarts(U, a) == \E x \in Starting(U, a) : \A y \in Ending(U, a) : Later(x, y)
LastOf(at, us) == at \in us /\ \A u \in us : u = at \/ Later(at, u)
BalanceTold(us, b) == (us = {} /\ b = 0) \/ \E at : LastOf(at, us) /\ LogAt(at).balance = b

\* What the logs at U tell is the state w.
LogsTell(U, w) ==
  /\ w.opened = {LogAt(at).acct : at \in Opening(U)}
  /\ \A a \in Accounts : w.auction[a].active <=> LastStarts(U, a)
  /\ IsGrid(w.bal) /\ \A a \in Accounts, s \in Series : BalanceTold(Updating(U, a, s), w.bal[a][s])

LEMMA NothingTells == LogsTell({}, Genesis)
<1>1. Opening({}) = {} /\ \A a, s : Starting({}, a) = {} /\ Updating({}, a, s) = {}
  BY DEF Opening, Starting, Updating
<1>2. Genesis.opened = {} /\ \A a \in Accounts : Genesis.auction[a].active = FALSE
  BY DEF Genesis, FreshAuction
<1>3. IsGrid(Genesis.bal) /\ \A a \in Accounts, s \in Series : Genesis.bal[a][s] = 0
  BY DEF Genesis, IsGrid
<1>4. Genesis.opened = {LogAt(at).acct : at \in Opening({})}
  BY <1>1, <1>2
<1>5. \A a \in Accounts : ~LastStarts({}, a)
  BY <1>1 DEF LastStarts
<1>6. \A a \in Accounts, s \in Series : BalanceTold(Updating({}, a, s), Genesis.bal[a][s])
  BY <1>1, <1>3 DEF BalanceTold
<1> QED
  BY <1>2, <1>3, <1>4, <1>5, <1>6 DEF LogsTell

LEMMA SameTells ==
  ASSUME NEW U, NEW w, LogsTell(U, w), NEW x, Same(w, x)
  PROVE  LogsTell(U, x)
BY DEF LogsTell, Same

\* One log more, later than all.
LEMMA MoreTells ==
  ASSUME NEW U, NEW w, LogsTell(U, w), NEW at, \A u \in U : Later(at, u) /\ ~Later(u, at) /\ u # at,
         NEW v, Follows(w, LogAt(at), v), NEW V, V = U \cup {at}
  PROVE  LogsTell(V, v)
<1>1. PICK e : e = LogAt(at)
  OBVIOUS
<1>2. v.bal = Record(w.bal, e) /\ v.opened = w.opened \cup Opens(e) /\ AuctionsMove(w, e, v)
  BY <1>1 DEF Follows, Marks
<1>3. v.opened = {LogAt(x).acct : x \in Opening(V)}
  <2>1. CASE e.ev = "SubAccountCreated"
    <3>1. Opening(V) = Opening(U) \cup {at}
      BY <1>1, <2>1 DEF Opening
    <3>2. Opens(e) = {LogAt(at).acct}
      BY <1>1, <2>1 DEF Opens
    <3> QED BY <1>2, <3>1, <3>2 DEF LogsTell
  <2>2. CASE e.ev # "SubAccountCreated"
    <3>1. Opening(V) = Opening(U)
      BY <1>1, <2>2 DEF Opening
    <3>2. Opens(e) = {}
      BY <2>2 DEF Opens
    <3> QED BY <1>2, <3>1, <3>2 DEF LogsTell
  <2> QED BY <2>1, <2>2
<1>4. ASSUME NEW a \in Accounts PROVE v.auction[a].active <=> LastStarts(V, a)
  <2>1. v.auction[a].active <=> Starts(e, a) \/ (w.auction[a].active /\ ~Ends(e, a))
    BY <1>2 DEF AuctionsMove
  <2>2. w.auction[a].active <=> LastStarts(U, a)
    BY DEF LogsTell
  <2>3. CASE Starts(e, a)
    <3>1. at \in Starting(V, a) /\ Ending(V, a) \subseteq U
      BY <1>1, <2>3 DEF Starting, Ending, Starts, Ends
    <3>2. LastStarts(V, a)
      BY <3>1 DEF LastStarts
    <3> QED BY <2>1, <2>3, <3>2
  <2>4. CASE Ends(e, a)
    <3>1. Starting(V, a) \subseteq U /\ at \in Ending(V, a)
      BY <1>1, <2>4 DEF Starting, Ending, Starts, Ends
    <3>2. ~LastStarts(V, a)
      BY <3>1 DEF LastStarts
    <3>3. ~Starts(e, a)
      BY <2>4 DEF Starts, Ends
    <3> QED BY <2>1, <2>4, <3>2, <3>3
  <2>5. CASE ~Starts(e, a) /\ ~Ends(e, a)
    <3>1. Starting(V, a) = Starting(U, a) /\ Ending(V, a) = Ending(U, a)
      BY <1>1, <2>5 DEF Starting, Ending
    <3>2. LastStarts(V, a) <=> LastStarts(U, a)
      BY <3>1 DEF LastStarts
    <3> QED BY <2>1, <2>2, <2>5, <3>2
  <2> QED BY <2>3, <2>4, <2>5
<1>5. Overwritten(v.bal, w.bal, e)
  BY <1>2, RecordAt DEF LogsTell
<1>6. ASSUME NEW a \in Accounts, NEW s \in Series PROVE BalanceTold(Updating(V, a, s), v.bal[a][s])
  <2>1. CASE Sets(e, a, s)
    <3>1. v.bal[a][s] = LogAt(at).balance
      BY <1>1, <1>5, <2>1 DEF Overwritten
    <3>2. LastOf(at, Updating(V, a, s))
      <4>1. at \in Updating(V, a, s) /\ \A u \in Updating(V, a, s) : u = at \/ u \in U
        BY <1>1, <2>1 DEF Updating
      <4> QED BY <4>1 DEF LastOf
    <3> QED BY <3>1, <3>2 DEF BalanceTold
  <2>2. CASE ~Sets(e, a, s)
    <3>1. v.bal[a][s] = w.bal[a][s]
      BY <1>5, <2>2 DEF Overwritten
    <3>2. Updating(V, a, s) = Updating(U, a, s)
      BY <1>1, <2>2 DEF Updating
    <3> QED BY <3>1, <3>2 DEF LogsTell
  <2> QED BY <2>1, <2>2
<1> QED
  BY <1>3, <1>4, <1>5, <1>6 DEF LogsTell, Overwritten

-----------------------------------------------------------------------------
(* The logs up to the i-th of block n *)

Upto(n, i) == {at \in Places : at[1] < n \/ (at[1] = n /\ at[2] <= i)}

LEMMA PlacesAre ==
  ASSUME ChainSound(blocks, mined)
  PROVE  /\ Tip \in Nat
         /\ \A at : at \in Places <=> \E n \in 1..Tip : \E i \in 1..Len(blocks[n].logs) : at = <<n, i>>
         /\ \A n \in 1..Tip : Len(blocks[n].logs) \in Nat
<1>1. Tip \in Nat
  BY TipSound
<1>2. \A n \in 1..Tip : Len(blocks[n].logs) \in Nat /\ DOMAIN blocks[n].logs = 1..Len(blocks[n].logs)
  <2> SUFFICES ASSUME NEW n \in 1..Tip
               PROVE  Len(blocks[n].logs) \in Nat /\ DOMAIN blocks[n].logs = 1..Len(blocks[n].logs)
    OBVIOUS
  <2>1. IsSeq(blocks[n].logs)
    BY DEF ChainSound, BlockSound, Tip
  <2> QED BY <2>1, LengthIs
<1>3. \A at : at \in Places <=> \E n \in 1..Tip : at \in {n} \X (1..Len(blocks[n].logs))
  BY <1>2 DEF Places
<1> QED
  BY <1>1, <1>2, <1>3

LEMMA UptoMore ==
  ASSUME ChainSound(blocks, mined), NEW n \in 1..Tip, NEW i \in 1..Len(blocks[n].logs), NEW at, at = <<n, i>>
  PROVE  /\ Upto(n, i) = Upto(n, i - 1) \cup {at}
         /\ \A u \in Upto(n, i - 1) : Later(at, u) /\ ~Later(u, at) /\ u # at
<1>1. Tip \in Nat /\ Len(blocks[n].logs) \in Nat
  BY PlacesAre
<1>2. at[1] = n /\ at[2] = i /\ at \in Places
  BY PlacesAre
<1>3. ASSUME NEW u \in Places PROVE \E m \in Nat, k \in Nat : u = <<m, k>> /\ u[1] = m /\ u[2] = k
  <2>1. PICK m \in 1..Tip : \E k \in 1..Len(blocks[m].logs) : u = <<m, k>>
    BY PlacesAre
  <2>2. PICK k \in 1..Len(blocks[m].logs) : u = <<m, k>>
    BY <2>1
  <2>3. Len(blocks[m].logs) \in Nat
    BY PlacesAre
  <2> QED BY <1>1, <2>2, <2>3
<1>4. ASSUME NEW u \in Places PROVE u \in Upto(n, i) <=> u \in Upto(n, i - 1) \/ u = at
  <2>1. PICK m \in Nat, k \in Nat : u = <<m, k>> /\ u[1] = m /\ u[2] = k
    BY <1>3
  <2>2. n \in Nat /\ i \in Nat
    BY <1>1
  <2>3. u = at <=> m = n /\ k = i
    BY <2>1
  <2> QED BY <2>1, <2>2, <2>3 DEF Upto
<1>5. ASSUME NEW u \in Upto(n, i - 1) PROVE Later(at, u) /\ ~Later(u, at) /\ u # at
  <2>1. PICK m \in Nat, k \in Nat : u = <<m, k>> /\ u[1] = m /\ u[2] = k
    BY <1>3 DEF Upto
  <2>2. n \in Nat /\ i \in Nat /\ (m < n \/ (m = n /\ k <= i - 1))
    BY <1>1, <2>1 DEF Upto
  <2> QED BY <1>2, <2>1, <2>2 DEF Later
<1> QED
  BY <1>2, <1>4, <1>5 DEF Upto

LEMMA UptoEnds ==
  ASSUME ChainSound(blocks, mined)
  PROVE  /\ Upto(0, 0) = {} /\ \A n \in 1..Tip : Upto(n, 0) = IF n = 1 THEN {} ELSE Upto(n - 1, Len(blocks[n - 1].logs))
         /\ Places = IF Tip = 0 THEN {} ELSE Upto(Tip, Len(blocks[Tip].logs))
<1>1. Tip \in Nat
  BY PlacesAre
<1>3. ASSUME NEW u \in Places
      PROVE \E m \in 1..Tip : \E k \in Nat : u[1] = m /\ u[2] = k /\ 1 <= k /\ k <= Len(blocks[m].logs)
  <2>1. PICK m \in 1..Tip : \E k \in 1..Len(blocks[m].logs) : u = <<m, k>>
    BY PlacesAre
  <2>2. PICK k \in 1..Len(blocks[m].logs) : u = <<m, k>>
    BY <2>1
  <2>3. Len(blocks[m].logs) \in Nat
    BY PlacesAre
  <2> QED BY <1>1, <2>2, <2>3
<1>4. Upto(0, 0) = {}
  BY <1>1, <1>3 DEF Upto
<1>5. ASSUME NEW n \in 1..Tip PROVE Upto(n, 0) = IF n = 1 THEN {} ELSE Upto(n - 1, Len(blocks[n - 1].logs))
  <2>1. CASE n = 1
    BY <1>1, <1>3, <2>1 DEF Upto
  <2>2. CASE n # 1
    <3>1. n - 1 \in 1..Tip /\ Len(blocks[n - 1].logs) \in Nat
      BY <1>1, <2>2, PlacesAre
    <3>2. ASSUME NEW u \in Places PROVE u \in Upto(n, 0) <=> u \in Upto(n - 1, Len(blocks[n - 1].logs))
      <4>1. PICK m \in 1..Tip : \E k \in Nat : u[1] = m /\ u[2] = k /\ 1 <= k /\ k <= Len(blocks[m].logs)
        BY <1>3
      <4>2. PICK k \in Nat : u[1] = m /\ u[2] = k /\ 1 <= k /\ k <= Len(blocks[m].logs)
        BY <4>1
      <4> QED BY <1>1, <3>1, <4>2 DEF Upto
    <3> QED BY <2>2, <3>2 DEF Upto
  <2> QED BY <2>1, <2>2
<1>6. Places = IF Tip = 0 THEN {} ELSE Upto(Tip, Len(blocks[Tip].logs))
  <2>1. CASE Tip = 0
    BY <1>3, <2>1
  <2>2. CASE Tip # 0
    <3>1. ASSUME NEW u \in Places PROVE u \in Upto(Tip, Len(blocks[Tip].logs))
      <4>1. PICK m \in 1..Tip : \E k \in Nat : u[1] = m /\ u[2] = k /\ 1 <= k /\ k <= Len(blocks[m].logs)
        BY <1>3
      <4>2. PICK k \in Nat : u[1] = m /\ u[2] = k /\ 1 <= k /\ k <= Len(blocks[m].logs)
        BY <4>1
      <4> QED BY <1>1, <4>2 DEF Upto
    <3> QED BY <2>2, <3>1 DEF Upto
  <2> QED BY <2>1, <2>2
<1> QED
  BY <1>4, <1>5, <1>6

\* All the logs of the chain tell the contracts' state.
LEMMA ChainTells ==
  ASSUME ChainSound(blocks, mined)
  PROVE  LogsTell(Places, Now)
<1>1. Tip \in Nat /\ Now = WorldIn(blocks, Tip)
  BY TipSound
<1> DEFINE To(n) == IF n = 0 THEN {} ELSE Upto(n, Len(blocks[n].logs))
           G == {n \in Nat : n <= Tip => LogsTell(To(n), WorldIn(blocks, n))}
<1>2. 0 \in G
  BY NothingTells DEF WorldIn
<1>3. ASSUME NEW k \in Nat, k \in G PROVE k + 1 \in G
  <2> SUFFICES ASSUME k + 1 <= Tip PROVE LogsTell(To(k + 1), WorldIn(blocks, k + 1))
    OBVIOUS
  <2>1. PICK n \in 1..Tip : n = k + 1 /\ n # 0
    BY <1>1
  <2>2. PICK logs : logs = blocks[n].logs
    OBVIOUS
  <2>3. BlockSound(blocks, mined, n)
    BY DEF ChainSound, Tip
  <2>4. PICK p : Path(p, logs, WorldIn(blocks, k), WorldIn(blocks, n))
    BY <2>1, <2>2, <2>3 DEF BlockSound, Tracked, WorldIn
  <2>5. Upto(n, 0) = To(k)
    BY <2>1, UptoEnds
  <2> DEFINE H == {i \in Nat : i <= Len(logs) => LogsTell(Upto(n, i), p[i])}
  <2>6. 0 \in H
    <3>1. LogsTell(To(k), WorldIn(blocks, k))
      BY <1>1, <1>3
    <3>2. Same(WorldIn(blocks, k), p[0])
      BY <2>4 DEF Path, Same
    <3>3. LogsTell(To(k), p[0])
      BY <3>1, <3>2, SameTells
    <3> QED BY <2>5, <3>3
  <2>7. ASSUME NEW i \in Nat, i \in H PROVE i + 1 \in H
    <3> SUFFICES ASSUME i + 1 <= Len(logs) PROVE LogsTell(Upto(n, i + 1), p[i + 1])
      OBVIOUS
    <3>1. Len(logs) \in Nat
      BY <2>2, PlacesAre
    <3>2. PICK j \in 1..Len(logs) : j = i + 1 /\ j - 1 = i
      BY <3>1
    <3>3. PICK at : at = <<n, j>>
      OBVIOUS
    <3>4. Upto(n, j) = Upto(n, i) \cup {at} /\ \A u \in Upto(n, i) : Later(at, u) /\ ~Later(u, at) /\ u # at
      BY <2>2, <3>2, <3>3, UptoMore
    <3>5. LogAt(at) = logs[j]
      BY <2>2, <3>3 DEF LogAt
    <3>6. Follows(p[i], LogAt(at), p[j])
      BY <2>4, <3>2, <3>5 DEF Path
    <3>7. LogsTell(Upto(n, i), p[i])
      BY <2>7, <3>1
    <3>8. LogsTell(Upto(n, j), p[j])
      BY <3>4, <3>6, <3>7, MoreTells
    <3> QED BY <3>2, <3>8
  <2>8. \A i \in Nat : i \in H
    <3> HIDE DEF H
    <3> QED BY <2>6, <2>7, CountInduction
  <2>9. LogsTell(Upto(n, Len(logs)), p[Len(logs)])
    <3>1. Len(logs) \in Nat
      BY <2>2, PlacesAre
    <3> QED BY <2>8, <3>1
  <2>10. Same(p[Len(logs)], WorldIn(blocks, n))
    BY <2>4 DEF Path
  <2>11. LogsTell(Upto(n, Len(logs)), WorldIn(blocks, n))
    BY <2>9, <2>10, SameTells
  <2> QED BY <2>1, <2>2, <2>11
<1>4. \A n \in Nat : n \in G
  <2> HIDE DEF G
  <2> QED BY <1>2, <1>3, CountInduction
<1>5. LogsTell(To(Tip), WorldIn(blocks, Tip))
  BY <1>1, <1>4
<1>6. Places = To(Tip)
  BY UptoEnds
<1> QED
  BY <1>1, <1>5, <1>6

-----------------------------------------------------------------------------
(* The lists *)

LEMMA ListsRead ==
  ASSUME ChainSound(blocks, mined)
  PROVE  /\ AccountsRead = Now.opened
         /\ RunningAuctions = {a \in Accounts : Now.auction[a].active}
         /\ \A s \in Series : HoldersRead(s) = {a \in Accounts : Now.bal[a][s] # 0}
<1>1. LogsTell(Places, Now)
  BY ChainTells
<1>2. AccountsRead = Now.opened
  BY <1>1 DEF LogsTell, AccountsRead, Scan, Opening
<1>3. RunningAuctions = {a \in Accounts : Now.auction[a].active}
  <2>1. \A a : Starting(Places, a) = {at \in Scan("AuctionStarted") : LogAt(at).acct = a}
    BY DEF Starting, Starts, Scan
  <2>2. \A a : Ending(Places, a) = {at \in Scan("AuctionEnded") : LogAt(at).acct = a}
    BY DEF Ending, Ends, Scan
  <2>3. RunningAuctions = {a \in Accounts : LastStarts(Places, a)}
    BY <2>1, <2>2 DEF RunningAuctions, LastStarts
  <2> QED BY <1>1, <2>3 DEF LogsTell
<1>4. ASSUME NEW s \in Series PROVE HoldersRead(s) = {a \in Accounts : Now.bal[a][s] # 0}
  <2>1. \A a : Updating(Places, a, s) = {at \in Scan("BalanceUpdated") : LogAt(at).acct = a /\ LogAt(at).series = s}
    BY DEF Updating, Sets, Scan
  <2>2. HoldersRead(s) = {a \in Accounts : \E at \in Updating(Places, a, s) :
                            LogAt(at).balance # 0 /\ LastOf(at, Updating(Places, a, s))}
    BY <2>1 DEF HoldersRead, LastOf
  <2>3. \A x, y \in Places : Later(x, y) => ~Later(y, x)
    <3> SUFFICES ASSUME NEW x \in Places, NEW y \in Places PROVE Later(x, y) => ~Later(y, x)
      OBVIOUS
    <3>0. Tip \in Nat
      BY PlacesAre
    <3>1. PICK n \in 1..Tip : \E i \in 1..Len(blocks[n].logs) : x = <<n, i>>
      BY PlacesAre
    <3>2. PICK i \in 1..Len(blocks[n].logs) : x = <<n, i>>
      BY <3>1
    <3>3. PICK m \in 1..Tip : \E j \in 1..Len(blocks[m].logs) : y = <<m, j>>
      BY PlacesAre
    <3>4. PICK j \in 1..Len(blocks[m].logs) : y = <<m, j>>
      BY <3>3
    <3>5. i \in Nat /\ j \in Nat
      BY PlacesAre
    <3>6. x[1] = n /\ x[2] = i /\ y[1] = m /\ y[2] = j
      BY <3>2, <3>4
    <3> QED BY <3>0, <3>5, <3>6 DEF Later
  <2>4. ASSUME NEW a \in Accounts
        PROVE  (\E at \in Updating(Places, a, s) : LogAt(at).balance # 0 /\ LastOf(at, Updating(Places, a, s)))
                 <=> Now.bal[a][s] # 0
    <3>1. BalanceTold(Updating(Places, a, s), Now.bal[a][s])
      BY <1>1 DEF LogsTell
    <3>2. CASE Updating(Places, a, s) = {}
      BY <3>1, <3>2 DEF BalanceTold, LastOf
    <3>3. CASE Updating(Places, a, s) # {}
      <4>1. PICK at : LastOf(at, Updating(Places, a, s)) /\ LogAt(at).balance = Now.bal[a][s]
        BY <3>1, <3>3 DEF BalanceTold
      <4>2. \A u : LastOf(u, Updating(Places, a, s)) => u = at
        <5>1. Updating(Places, a, s) \subseteq Places
          BY DEF Updating
        <5> QED BY <2>3, <4>1, <5>1 DEF LastOf
      <4>3. at \in Updating(Places, a, s)
        BY <4>1 DEF LastOf
      <4> QED BY <4>1, <4>2, <4>3
    <3> QED BY <3>2, <3>3
  <2> QED BY <2>2, <2>4
<1> QED
  BY <1>2, <1>3, <1>4

-----------------------------------------------------------------------------
(* 4. The routes of the API once the index has the whole chain *)

LEMMA LevelHistory ==
  ASSUME IndexSound, seen = Ids
  PROVE  HistoryRoute = UNION {Scan(ev) : ev \in Told}
<1>1. ChainSound(blocks, mined) /\ Progress = Tip /\ OnChain
  BY LevelIndex DEF IndexSound
<1>2. \A x : x \in tables.history <=> \E n \in 1..Tip : x \in KeptOf(blocks, n)
  BY <1>1 DEF IndexSound, TablesOf
<1>3. ASSUME NEW at PROVE at \in HistoryRoute <=> at \in Places /\ LogAt(at).ev \in Told
  <2>1. ASSUME at \in HistoryRoute PROVE at \in Places /\ LogAt(at).ev \in Told
    <3>1. PICK n \in 1..Tip : at \in KeptOf(blocks, n)
      BY <1>2, <2>1 DEF HistoryRoute
    <3>2. at \in {n} \X DOMAIN blocks[n].logs
      BY <3>1 DEF KeptOf
    <3> QED BY <2>1, <3>2 DEF HistoryRoute, Places
  <2>2. ASSUME at \in Places, LogAt(at).ev \in Told PROVE at \in HistoryRoute
    <3>1. PICK n \in 1..Tip : at \in {n} \X DOMAIN blocks[n].logs
      BY <2>2 DEF Places
    <3>2. PICK i \in DOMAIN blocks[n].logs : at = <<n, i>>
      BY <3>1
    <3>3. LogAt(at) = blocks[n].logs[i]
      BY <3>2 DEF LogAt
    <3>4. Kept(blocks[n].logs[i])
      BY <2>2, <3>3 DEF Kept, Told, HistoryOnly
    <3>5. at \in KeptOf(blocks, n)
      BY <3>2, <3>4 DEF KeptOf
    <3> QED BY <1>2, <2>2, <3>5 DEF HistoryRoute
  <2> QED BY <2>1, <2>2
<1> QED
  BY <1>3 DEF Scan

LEMMA LevelRows ==
  ASSUME IndexSound, seen = Ids
  PROVE  /\ AccountsRoute = Now.opened /\ SeriesRoute = Now.listed
         /\ MarketsRoute = Now.market /\ LatestSurface = Now.seq /\ SystemRoute.progress = Tip
         /\ ActiveAuctions = {a \in Accounts : Now.auction[a].active}
<1>1. Tells(tables, Now) /\ Progress = Tip
  BY LevelIndex
<1>2. Sound(Now)
  BY TipSound DEF IndexSound
<1>3. AccountsRoute = Now.opened
  BY <1>1 DEF Tells, AccountsTold, AccountsRoute
<1>4. SeriesRoute = Now.listed
  BY <1>1 DEF Tells, SeriesTold, SeriesRoute
<1>5. MarketsRoute = Now.market
  BY <1>1 DEF Tells, MarketTold, MarketsRoute
<1>6. LatestSurface = Now.seq
  <2>1. PICK rows : rows = tables.surface
    OBVIOUS
  <2>2. PICK q \in Nat : q = Now.seq
    BY <1>2 DEF Sound, Worlds
  <2>3. DOMAIN rows \subseteq 1..q /\ (q > 0 => q \in DOMAIN rows)
    BY <1>1, <2>1, <2>2 DEF Tells, SurfaceTold
  <2>4. LatestSurface = IF DOMAIN rows = {} THEN 0 ELSE CHOOSE n \in DOMAIN rows : \A m \in DOMAIN rows : m <= n
    BY <2>1 DEF LatestSurface
  <2>5. CASE q = 0
    <3>1. 1..q = {}
      BY <2>5
    <3>2. DOMAIN rows = {}
      BY <2>3, <3>1
    <3> QED BY <2>2, <2>4, <2>5, <3>2
  <2>6. CASE q > 0
    <3>1. q \in DOMAIN rows /\ \A m \in DOMAIN rows : m <= q
      BY <2>3, <2>6
    <3>2. \A n \in DOMAIN rows : (\A m \in DOMAIN rows : m <= n) => n = q
      BY <2>3, <3>1
    <3> QED BY <2>2, <2>4, <3>1, <3>2
  <2> QED BY <2>5, <2>6
<1>7. SystemRoute.progress = Tip
  BY <1>1 DEF SystemRoute
<1>8. ActiveAuctions = {a \in Accounts : Now.auction[a].active}
  <2>1. DOMAIN tables.auction \subseteq Accounts
        /\ \A a \in Accounts : Row(tables.auction, a, FreshAuction).active = Now.auction[a].active
    BY <1>1 DEF Tells, AuctionsTold
  <2>2. ASSUME NEW a \in Accounts
        PROVE  (a \in DOMAIN tables.auction /\ tables.auction[a].active) <=> Now.auction[a].active
    <3>1. CASE a \in DOMAIN tables.auction
      BY <2>1, <3>1 DEF Row
    <3>2. CASE a \notin DOMAIN tables.auction
      <4>1. ~Now.auction[a].active
        BY <2>1, <3>2 DEF Row, FreshAuction
      <4> QED BY <3>2, <4>1
    <3> QED BY <3>1, <3>2
  <2> QED BY <2>1, <2>2 DEF ActiveAuctions
<1> QED
  BY <1>3, <1>4, <1>5, <1>6, <1>7, <1>8

\* The open rows of the positions.
LEMMA LevelPositions ==
  ASSUME IndexSound, seen = Ids
  PROVE  /\ \A s \in Series : SeriesPositions(s) = {a \in Accounts : Now.bal[a][s] # 0}
         /\ \A a \in Accounts, s \in Series : Now.bal[a][s] # 0 => tables.position[<<a, s>>] = Now.bal[a][s]
         /\ ParticipantIds = {a \in Accounts : InGroup(Now, a)} /\ PositionsRoute = ParticipantIds
<1>1. Tells(tables, Now) /\ SeriesRoute = Now.listed
  BY LevelIndex, LevelRows
<1>2. Sound(Now)
  BY TipSound DEF IndexSound
<1>3. PICK rows : rows = tables.position
  OBVIOUS
<1>4. DOMAIN rows \subseteq Accounts \X Series /\ \A a \in Accounts, s \in Series : Row(rows, <<a, s>>, 0) = Now.bal[a][s]
  BY <1>1, <1>3 DEF Tells, PositionsTold
<1>5. ASSUME NEW a \in Accounts, NEW s \in Series
      PROVE  /\ <<a, s>> \in OpenRows <=> Now.bal[a][s] # 0
             /\ Now.bal[a][s] # 0 => rows[<<a, s>>] = Now.bal[a][s]
  <2>1. Row(rows, <<a, s>>, 0) = Now.bal[a][s]
    BY <1>4
  <2>2. <<a, s>> \in OpenRows <=> <<a, s>> \in DOMAIN rows /\ rows[<<a, s>>] # 0
    BY <1>3 DEF OpenRows
  <2> QED BY <2>1, <2>2 DEF Row
<1>6. ASSUME NEW key \in OpenRows
      PROVE  \E a \in Accounts, s \in Series : key = <<a, s>> /\ key[1] = a /\ key[2] = s
  BY <1>3, <1>4 DEF OpenRows
<1>7. ASSUME NEW s \in Series PROVE SeriesPositions(s) = {a \in Accounts : Now.bal[a][s] # 0}
  <2>1. ASSUME NEW x \in SeriesPositions(s) PROVE x \in Accounts /\ Now.bal[x][s] # 0
    <3>1. PICK key \in OpenRows : key[2] = s /\ x = key[1]
      BY <2>1 DEF SeriesPositions
    <3>2. PICK a \in Accounts, q \in Series : key = <<a, q>> /\ key[1] = a /\ key[2] = q
      BY <1>6
    <3> QED BY <1>5, <3>1, <3>2
  <2>2. ASSUME NEW a \in Accounts, Now.bal[a][s] # 0 PROVE a \in SeriesPositions(s)
    <3>1. PICK key : key = <<a, s>>
      OBVIOUS
    <3>2. key \in OpenRows /\ key[1] = a /\ key[2] = s
      BY <1>5, <2>2, <3>1
    <3> QED BY <3>2 DEF SeriesPositions
  <2> QED BY <2>1, <2>2
<1>8. \A key \in OpenRows : key[2] \in DOMAIN tables.series
  <2> SUFFICES ASSUME NEW key \in OpenRows PROVE key[2] \in Now.listed
    BY <1>1 DEF SeriesRoute
  <2>1. PICK a \in Accounts, s \in Series : key = <<a, s>> /\ key[1] = a /\ key[2] = s
    BY <1>6
  <2>2. Now.bal[a][s] # 0
    BY <1>5, <2>1
  <2> QED BY <1>2, <2>1, <2>2 DEF Sound, ListedFirst
<1>9. PositionsRoute = ParticipantIds
  BY <1>8 DEF PositionsRoute, ParticipantIds
<1>10. PositionsRoute = {a \in Accounts : InGroup(Now, a)}
  <2>1. ASSUME NEW x \in PositionsRoute PROVE x \in Accounts /\ InGroup(Now, x)
    <3>1. PICK key \in OpenRows : x = key[1]
      BY <2>1 DEF PositionsRoute
    <3>2. PICK a \in Accounts, q \in Series : key = <<a, q>> /\ key[1] = a /\ key[2] = q
      BY <1>6
    <3> QED BY <1>5, <3>1, <3>2 DEF InGroup
  <2>2. ASSUME NEW a \in Accounts, InGroup(Now, a) PROVE a \in PositionsRoute
    <3>1. PICK s \in Series : Now.bal[a][s] # 0
      BY <2>2 DEF InGroup
    <3>2. PICK key : key = <<a, s>>
      OBVIOUS
    <3>3. key \in OpenRows /\ key[1] = a
      BY <1>5, <3>1, <3>2
    <3> QED BY <3>3 DEF PositionsRoute
  <2> QED BY <2>1, <2>2
<1> QED
  BY <1>3, <1>5, <1>7, <1>9, <1>10

-----------------------------------------------------------------------------
(* Who has written a series, and how much *)

WrittenOf(W, bal, s) == SumOver(W, LAMBDA a : -bal[a][s])
RowsWritten(W, rows, s) == SumOver(W, LAMBDA a : -rows[<<a, s>>])

LEMMA SumIs ==
  ASSUME NEW W, IsFiniteSet(W), NEW g \in [W -> Int], NEW H, Adds(H, g, W)
  PROVE  H[W] = RowSum(W, g)
<1>1. IsRowOf(g, W, g)
  BY DEF IsRowOf
<1>2. PICK h \in [SUBSET W -> Int] : Adds(h, g, W)
  BY AddsExists
<1>3. H[W] = h[W]
  BY <1>2, AddsSame
<1>4. RowSum(W, g) = h[W]
  BY <1>1, <1>2, RowAdds
<1> QED
  BY <1>3, <1>4

LEMMA WrittenAdds ==
  ASSUME NEW W, IsFiniteSet(W), NEW bal, NEW s, \A a \in W : bal[a][s] \in Int,
         NEW g, g = [a \in W |-> -bal[a][s]]
  PROVE  WrittenOf(W, bal, s) = RowSum(W, g)
<1> DEFINE Is(j) == j = [r \in SUBSET W |-> IF r = {} THEN 0 ELSE LET x == First(r) IN -bal[x][s] + j[r \ {x}]]
           H == CHOOSE j : Is(j)
<1>1. g \in [W -> Int]
  OBVIOUS
<1>2. PICK h \in [SUBSET W -> Int] : Adds(h, g, W)
  BY <1>1, AddsExists
<1>3. \A r \in SUBSET W : r # {} => g[First(r)] = -bal[First(r)][s]
  BY FirstIn
<1>4. Is(h)
  <2>1. \A r \in SUBSET W : h[r] = IF r = {} THEN 0 ELSE -bal[First(r)][s] + h[r \ {First(r)}]
    BY <1>2, <1>3 DEF Adds
  <2> QED BY <2>1
<1>5. Is(H)
  BY <1>4
<1>6. WrittenOf(W, bal, s) = H[W]
  BY DEF WrittenOf, SumOver, FoldSet, MapThenFoldSet, First
<1> HIDE DEF H
<1>7. \A r \in SUBSET W : H[r] = IF r = {} THEN 0 ELSE g[First(r)] + H[r \ {First(r)}]
  BY <1>3, <1>5
<1>8. Adds(H, g, W)
  BY <1>7 DEF Adds
<1>9. H[W] = RowSum(W, g)
  BY <1>1, <1>8, SumIs
<1> QED
  BY <1>6, <1>9

LEMMA RowsWrittenAdds ==
  ASSUME NEW W, IsFiniteSet(W), NEW rows, NEW s, \A a \in W : rows[<<a, s>>] \in Int,
         NEW g, g = [a \in W |-> -rows[<<a, s>>]]
  PROVE  RowsWritten(W, rows, s) = RowSum(W, g)
<1> DEFINE Is(j) == j = [r \in SUBSET W |-> IF r = {} THEN 0 ELSE LET x == First(r) IN -rows[<<x, s>>] + j[r \ {x}]]
           H == CHOOSE j : Is(j)
<1>1. g \in [W -> Int]
  OBVIOUS
<1>2. PICK h \in [SUBSET W -> Int] : Adds(h, g, W)
  BY <1>1, AddsExists
<1>3. \A r \in SUBSET W : r # {} => g[First(r)] = -rows[<<First(r), s>>]
  BY FirstIn
<1>4. Is(h)
  <2>1. \A r \in SUBSET W : h[r] = IF r = {} THEN 0 ELSE -rows[<<First(r), s>>] + h[r \ {First(r)}]
    BY <1>2, <1>3 DEF Adds
  <2> QED BY <2>1
<1>5. Is(H)
  BY <1>4
<1>6. RowsWritten(W, rows, s) = H[W]
  BY DEF RowsWritten, SumOver, FoldSet, MapThenFoldSet, First
<1> HIDE DEF H
<1>7. \A r \in SUBSET W : H[r] = IF r = {} THEN 0 ELSE g[First(r)] + H[r \ {First(r)}]
  BY <1>3, <1>5
<1>8. Adds(H, g, W)
  BY <1>7 DEF Adds
<1>9. H[W] = RowSum(W, g)
  BY <1>1, <1>8, SumIs
<1> QED
  BY <1>6, <1>9

Writers(s) == {a \in Accounts : Now.bal[a][s] < 0}

LEMMA BackingIs ==
  ASSUME ChainSound(blocks, mined), NEW s \in Series
  PROVE  Backing(s) = [writers |-> Writers(s), written |-> WrittenOf(Writers(s), Now.bal, s),
                       inWallets |-> SupplyOf(Now.held, s)]
<1>1. HoldersRead(s) = {a \in Accounts : Now.bal[a][s] # 0}
  BY ListsRead
<1>2. \A a \in Accounts : Now.bal[a][s] \in Int
  BY TipSound DEF Sound, Worlds, Balances
<1>3. {a \in HoldersRead(s) : Now.bal[a][s] < 0} = Writers(s)
  BY <1>1, <1>2 DEF Writers
<1>4. Backing(s) = [writers |-> {a \in HoldersRead(s) : Now.bal[a][s] < 0},
                    written |-> WrittenOf({a \in HoldersRead(s) : Now.bal[a][s] < 0}, Now.bal, s),
                    inWallets |-> SupplyOf(Now.held, s)]
  BY DEF Backing, WrittenOf, SupplyOf
<1> QED
  BY <1>3, <1>4

LEMMA LevelBacking ==
  ASSUME IndexSound, seen = Ids, NEW s \in Series
  PROVE  BackingWithIndexer(s, TRUE) = Backing(s)
<1>1. ChainSound(blocks, mined) /\ Sound(Now)
  BY TipSound DEF IndexSound
<1>3. /\ SeriesPositions(s) = {a \in Accounts : Now.bal[a][s] # 0}
      /\ \A a \in Accounts : Now.bal[a][s] # 0 => tables.position[<<a, s>>] = Now.bal[a][s]
  BY LevelPositions
<1>4. \A a \in Accounts : Now.bal[a][s] \in Int
  BY <1>1 DEF Sound, Worlds, Balances
<1>5. PICK W : W = Writers(s)
  OBVIOUS
<1>6. {a \in SeriesPositions(s) : tables.position[<<a, s>>] < 0} = W
  BY <1>3, <1>4, <1>5 DEF Writers
<1>7. W \subseteq Accounts /\ IsFiniteSet(W) /\ \A a \in W : tables.position[<<a, s>>] = Now.bal[a][s] /\ Now.bal[a][s] \in Int
  BY <1>3, <1>4, <1>5, FS_Subset, ChainAssumption DEF Writers
<1>8. PICK g : g = [a \in W |-> -Now.bal[a][s]]
  OBVIOUS
<1>9. WrittenOf(W, Now.bal, s) = RowSum(W, g)
  BY <1>7, <1>8, WrittenAdds
<1>10. RowsWritten(W, tables.position, s) = RowSum(W, g)
  <2>1. g = [a \in W |-> -tables.position[<<a, s>>]]
    BY <1>7, <1>8
  <2> QED BY <1>7, <2>1, RowsWrittenAdds
<1>11. BackingWithIndexer(s, TRUE) = [writers |-> {a \in SeriesPositions(s) : tables.position[<<a, s>>] < 0},
           written |-> RowsWritten({a \in SeriesPositions(s) : tables.position[<<a, s>>] < 0}, tables.position, s),
           inWallets |-> SupplyOf(Now.held, s)]
  BY DEF BackingWithIndexer, RowsWritten, SupplyOf
<1> QED
  BY <1>1, <1>5, <1>6, <1>9, <1>10, <1>11, BackingIs

-----------------------------------------------------------------------------
(* 5. The orders of the book, read in chunks: by kind, not in the order of *)
(*    the chain                                                            *)

UserRow(status, size, filled, left) == [status |-> status, size |-> size, filled |-> filled, left |-> left]
IsUserRow(r) == r = UserRow(r.status, r.size, r.filled, r.left)
IsUserRows(m) == m = [o \in Orders |-> m[o]] /\ \A o \in Orders : IsUserRow(m[o])

\* From the row r the log e, met by the scan for a kind, leads to the row y of o.
RowMoves(kind, r, e, o, y) ==
  IF e.ev # kind THEN y = r
  ELSE CASE kind = "OrderCreated" -> y = IF e.order = o THEN UserRow("open", e.size, 0, e.size) ELSE r
         [] kind = "Trade" ->
              IF e.order = o /\ r # NoOrder
              THEN y = UserRow(IF e.left = 0 THEN "filled" ELSE IF r.size > e.left THEN "partial" ELSE "open",
                               r.size, r.size - e.left, e.left)
              ELSE y = r
         [] kind = "OrdersCanceled" ->
              IF o \in e.orders /\ r # NoOrder /\ r.status # "filled"
              THEN y = UserRow("cancelled", r.size, r.filled, 0) ELSE y = r

OrderKinds == {"OrderCreated", "Trade", "OrdersCanceled"}

LEMMA ApplyMoves ==
  ASSUME NEW kind \in OrderKinds, NEW m, IsUserRows(m), NEW e, NEW z, z = Apply(kind, m, e)
  PROVE  IsUserRows(z) /\ \A o \in Orders : RowMoves(kind, m[o], e, o, z[o])
<1>1. CASE e.ev # kind
  BY <1>1 DEF Apply, RowMoves
<1>2. CASE e.ev = kind /\ kind = "OrderCreated"
  <2>1. PICK q : q = e.order
    OBVIOUS
  <2>2. PICK new : new = UserRow("open", e.size, 0, e.size)
    OBVIOUS
  <2>3. z = [m EXCEPT ![q] = new]
    BY <1>2, <2>1, <2>2 DEF Apply, AddOrder, UserRow
  <2>4. IsUserRow(new)
    BY <2>2 DEF IsUserRow, UserRow
  <2>5. z = [o \in Orders |-> z[o]] /\ \A o \in Orders : z[o] = IF q = o THEN new ELSE m[o]
    BY <2>3 DEF IsUserRows
  <2>6. IsUserRows(z)
    BY <2>4, <2>5 DEF IsUserRows
  <2>7. \A o \in Orders : RowMoves(kind, m[o], e, o, z[o])
    BY <1>2, <2>1, <2>2, <2>5 DEF RowMoves
  <2> QED BY <2>6, <2>7
<1>3. CASE e.ev = kind /\ kind = "Trade"
  <2>1. PICK q : q = e.order
    OBVIOUS
  <2>2. PICK r : r = m[q]
    OBVIOUS
  <2>3. z = IF r = NoOrder THEN m
            ELSE [m EXCEPT ![q] = [m[q] EXCEPT !.left = e.left, !.filled = r.size - e.left,
                     !.status = IF e.left = 0 THEN "filled" ELSE IF r.size > e.left THEN "partial" ELSE "open"]]
    BY <1>3, <2>1, <2>2 DEF Apply, FillOf
  <2>4. CASE r = NoOrder
    <3>1. z = m
      BY <2>3, <2>4
    <3>2. \A o \in Orders : e.order = o => m[o] = NoOrder
      BY <2>1, <2>2, <2>4
    <3> QED BY <1>3, <3>1, <3>2 DEF RowMoves
  <2>5. CASE r # NoOrder
    <3>1. PICK st : st = IF e.left = 0 THEN "filled" ELSE IF r.size > e.left THEN "partial" ELSE "open"
      OBVIOUS
    <3>2. PICK fill : fill = r.size - e.left
      OBVIOUS
    <3>3. PICK new : new = [r EXCEPT !.left = e.left, !.filled = fill, !.status = st]
      OBVIOUS
    <3>4. z = [m EXCEPT ![q] = new]
      BY <2>2, <2>3, <2>5, <3>1, <3>2, <3>3
    <3>5. z = [o \in Orders |-> z[o]] /\ \A o \in Orders : z[o] = IF q = o THEN new ELSE m[o]
      BY <3>4 DEF IsUserRows
    <3>6. q \in Orders => new = UserRow(st, r.size, fill, e.left)
      <4> SUFFICES ASSUME q \in Orders PROVE new = UserRow(st, r.size, fill, e.left)
        OBVIOUS
      <4>1. r = UserRow(r.status, r.size, r.filled, r.left)
        BY <2>2 DEF IsUserRows, IsUserRow
      <4>2. PICK a, b, c, d : r = UserRow(a, b, c, d) /\ b = r.size
        BY <4>1
      <4>3. [UserRow(a, b, c, d) EXCEPT !.left = e.left] = UserRow(a, b, c, e.left)
        BY DEF UserRow
      <4>4. [UserRow(a, b, c, e.left) EXCEPT !.filled = fill] = UserRow(a, b, fill, e.left)
        BY DEF UserRow
      <4>5. [UserRow(a, b, fill, e.left) EXCEPT !.status = st] = UserRow(st, b, fill, e.left)
        BY DEF UserRow
      <4> QED BY <3>3, <4>2, <4>3, <4>4, <4>5
    <3>7. IsUserRows(z)
      <4>1. q \in Orders => IsUserRow(new)
        <5>1. \A a, b, c, d : IsUserRow(UserRow(a, b, c, d))
          BY DEF IsUserRow, UserRow
        <5> QED BY <3>6, <5>1
      <4> QED BY <3>5, <4>1 DEF IsUserRows
    <3>8. ASSUME NEW o \in Orders PROVE RowMoves(kind, m[o], e, o, z[o])
      <4>1. CASE e.order = o
        <5>1. q = o /\ m[o] = r /\ z[o] = UserRow(st, r.size, fill, e.left)
          BY <2>1, <2>2, <3>5, <3>6, <4>1
        <5> QED BY <1>3, <2>5, <3>1, <3>2, <4>1, <5>1 DEF RowMoves
      <4>2. CASE e.order # o
        <5>1. z[o] = m[o]
          BY <2>1, <3>5, <4>2
        <5> QED BY <1>3, <4>2, <5>1 DEF RowMoves
      <4> QED BY <4>1, <4>2
    <3> QED BY <3>7, <3>8
  <2> QED BY <2>4, <2>5
<1>4. CASE e.ev = kind /\ kind = "OrdersCanceled"
  <2> DEFINE Hit(o) == o \in e.orders /\ m[o] # NoOrder /\ m[o].status # "filled"
  <2>1. z = [o \in Orders |-> IF Hit(o) THEN [m[o] EXCEPT !.left = 0, !.status = "cancelled"] ELSE m[o]]
    BY <1>4 DEF Apply, CancelOf
  <2>2. ASSUME NEW o \in Orders
        PROVE  z[o] = IF Hit(o) THEN UserRow("cancelled", m[o].size, m[o].filled, 0) ELSE m[o]
    <3>1. PICK r : r = m[o]
      OBVIOUS
    <3>2. r = UserRow(r.status, r.size, r.filled, r.left)
      BY <3>1 DEF IsUserRows, IsUserRow
    <3>3. PICK a, b, c, d : r = UserRow(a, b, c, d) /\ b = r.size /\ c = r.filled
      BY <3>2
    <3>4. [UserRow(a, b, c, d) EXCEPT !.left = 0] = UserRow(a, b, c, 0)
      BY DEF UserRow
    <3>5. [UserRow(a, b, c, 0) EXCEPT !.status = "cancelled"] = UserRow("cancelled", b, c, 0)
      BY DEF UserRow
    <3>6. [r EXCEPT !.left = 0, !.status = "cancelled"] = UserRow("cancelled", r.size, r.filled, 0)
      BY <3>3, <3>4, <3>5
    <3> QED BY <2>1, <3>1, <3>6
  <2>3. IsUserRows(z)
    <3>1. \A a, b, c, d : IsUserRow(UserRow(a, b, c, d))
      BY DEF IsUserRow, UserRow
    <3>2. z = [o \in Orders |-> z[o]]
      BY <2>1
    <3>3. \A o \in Orders : IsUserRow(z[o])
      BY <2>2, <3>1 DEF IsUserRows
    <3> QED BY <3>2, <3>3 DEF IsUserRows
  <2>4. \A o \in Orders : RowMoves(kind, m[o], e, o, z[o])
    BY <1>4, <2>2 DEF RowMoves
  <2> QED BY <2>3, <2>4
<1> QED
  BY <1>1, <1>2, <1>3, <1>4 DEF OrderKinds

\* The scan for a kind, log by log.
KindRun(r, kind, m, logs) == r[0] = m /\ \A i \in 1..Len(logs) : r[i] = Apply(kind, r[i - 1], logs[i])

LEMMA KindRuns ==
  ASSUME NEW kind, NEW logs, IsSeq(logs), NEW m
  PROVE  \E r : KindRun(r, kind, m, logs) /\ r[Len(logs)] = ReadKind(kind, m, logs)
<1>0. PICK k \in Nat : k = Len(logs) /\ DOMAIN logs = 1..k
  BY LengthIs
<1> DEFINE n == <<"orders", kind, logs>>
           Choice(h, s) == Apply(kind, h[s \ {Max(s)}], logs[Max(s)])
           Is(h) == h = [s \in SUBSET (DOMAIN logs) |-> IF s = {} THEN m ELSE Choice(h, s)]
           H == CHOOSE h : Is(h)
<1>1. ReadKind(kind, m, logs) = H[DOMAIN logs]
  BY DEF ReadKind, FoldLeft, MapThenFoldSet
<1>2. PICK g : g = [s \in SUBSET (1..k) |-> g[s]] /\ IsRun(g, n, m, k)
  BY RunExists
<1>3. \A u, i : Step(n, u, i) = Apply(kind, u, logs[i])
  BY DEF Step
<1>5. \A h, s : Choice(h, s) = Step(n, h[s \ {Max(s)}], Max(s))
  BY <1>3
<1> HIDE DEF n
<1>4. Is(g)
  <2> SUFFICES g = [s \in SUBSET (1..k) |-> IF s = {} THEN m ELSE Choice(g, s)]
    BY <1>0
  <2> HIDE DEF Choice
  <2>1. \A s \in SUBSET (1..k) : g[s] = IF s = {} THEN m ELSE Choice(g, s)
    BY <1>2, <1>5 DEF IsRun
  <2> QED BY <1>2, <2>1
<1>6. Is(H)
  <2> HIDE DEF Is
  <2> QED BY <1>4
<1>7. H = [s \in SUBSET (1..k) |-> IF s = {} THEN m ELSE Choice(H, s)]
  <2> HIDE DEF H, Choice
  <2> QED BY <1>0, <1>6
<1> HIDE DEF H, Choice
<1>8. \A s \in SUBSET (1..k) : H[s] = IF s = {} THEN m ELSE Choice(H, s)
  BY <1>7
<1>9. IsRun(H, n, m, k)
  BY <1>5, <1>8 DEF IsRun
<1>10. PICK r : Runs(r, n, m, k) /\ r[k] = H[1..k]
  BY <1>9, RunOf
<1>11. KindRun(r, kind, m, logs)
  BY <1>0, <1>3, <1>10 DEF KindRun, Runs
<1> QED
  BY <1>0, <1>1, <1>10, <1>11

LEMMA KindMoves ==
  ASSUME NEW kind \in OrderKinds, NEW logs, IsSeq(logs), NEW m, IsUserRows(m), NEW r, KindRun(r, kind, m, logs)
  PROVE  /\ Len(logs) \in Nat /\ IsUserRows(r[Len(logs)])
         /\ \A o \in Orders : \A i \in 1..Len(logs) : RowMoves(kind, r[i - 1][o], logs[i], o, r[i][o])
<1>1. PICK k \in Nat : k = Len(logs)
  BY LengthIs
<1> DEFINE G == {i \in Nat : i <= k => IsUserRows(r[i])}
<1>2. 0 \in G
  BY DEF KindRun
<1>3. ASSUME NEW i \in Nat, i \in G PROVE i + 1 \in G
  <2> SUFFICES ASSUME i + 1 <= k PROVE IsUserRows(r[i + 1])
    OBVIOUS
  <2>1. i + 1 \in 1..Len(logs) /\ (i + 1) - 1 = i
    BY <1>1
  <2>2. PICK e : e = logs[i + 1]
    OBVIOUS
  <2>3. r[i + 1] = Apply(kind, r[i], e) /\ IsUserRows(r[i])
    BY <1>3, <2>1, <2>2 DEF KindRun
  <2> QED BY <2>3, ApplyMoves
<1>4. \A i \in Nat : i \in G
  <2> HIDE DEF G
  <2> QED BY <1>2, <1>3, CountInduction
<1>5. ASSUME NEW o \in Orders, NEW i \in 1..Len(logs) PROVE RowMoves(kind, r[i - 1][o], logs[i], o, r[i][o])
  <2>1. i - 1 \in Nat /\ i - 1 <= k
    BY <1>1
  <2>2. IsUserRows(r[i - 1])
    BY <1>4, <2>1
  <2>3. PICK e : e = logs[i]
    OBVIOUS
  <2>4. r[i] = Apply(kind, r[i - 1], e)
    BY <2>3 DEF KindRun
  <2> QED BY <2>2, <2>3, <2>4, ApplyMoves
<1> QED
  BY <1>1, <1>4, <1>5

-----------------------------------------------------------------------------
(* One order through a chunk: its row r on the chain, and what the three   *)
(* scans make of it                                                        *)

\* The app's row r says what the chain's row x says.
Like(r, x) ==
  /\ IsUserRow(r) /\ x.status \in Statuses
  /\ r.status = StatusNames[x.status] /\ r.size = x.size /\ r.left = x.left
  /\ r = NoOrder <=> x.status = "none"

LEMMA StatusNamesAre ==
  /\ StatusNames["none"] = "none" /\ StatusNames["OPEN"] = "open" /\ StatusNames["PARTIAL"] = "partial"
  /\ StatusNames["FILLED"] = "filled" /\ StatusNames["CANCELLED"] = "cancelled"
  /\ NoOrder.status = "none" /\ NoOrder = UserRow("none", 0, 0, 0)
BY DEF StatusNames, NoOrder, UserRow

ChainRun(x, logs, o) == \A i \in 1..Len(logs) : OrderMoves(x[i - 1], logs[i], o, x[i])
RowRun(kind, f, logs, o) == \A i \in 1..Len(logs) : RowMoves(kind, f[i - 1], logs[i], o, f[i])

\* An order stays placed, with its size, and stays cancelled.
Grows(r, y) ==
  /\ r.status # "none" => y.status # "none" /\ y.size = r.size
  /\ r.status = "CANCELLED" => y = r
  /\ y.status = "none" => y = r

LEMMA MoveGrows ==
  ASSUME NEW r, NEW e, NEW o, NEW y, OrderMoves(r, e, o, y)
  PROVE  Grows(r, y)
<1>1. \A a, b, c : StoredRow(a, b, c).status = c /\ StoredRow(a, b, c).size = a
  BY DEF StoredRow
<1> QED
  BY <1>1 DEF OrderMoves, Grows

LEMMA RowsGrow ==
  ASSUME NEW logs, Len(logs) \in Nat, NEW x, NEW o, ChainRun(x, logs, o),
         NEW i \in 0..Len(logs), NEW j \in 0..Len(logs), i <= j
  PROVE  Grows(x[i], x[j])
<1> DEFINE G == {n \in Nat : i + n <= Len(logs) => Grows(x[i], x[i + n])}
<1>1. 0 \in G
  BY DEF Grows
<1>2. ASSUME NEW n \in Nat, n \in G PROVE n + 1 \in G
  <2> SUFFICES ASSUME i + (n + 1) <= Len(logs) PROVE Grows(x[i], x[i + (n + 1)])
    OBVIOUS
  <2>1. PICK q \in 1..Len(logs) : q = i + (n + 1) /\ q - 1 = i + n
    OBVIOUS
  <2>2. Grows(x[q - 1], x[q])
    BY MoveGrows DEF ChainRun
  <2>3. Grows(x[i], x[q - 1])
    BY <1>2, <2>1
  <2>4. Grows(x[i], x[q])
    BY <2>2, <2>3 DEF Grows
  <2> QED BY <2>1, <2>4
<1>3. \A n \in Nat : n \in G
  <2> HIDE DEF G
  <2> QED BY <1>1, <1>2, CountInduction
<1>4. j - i \in Nat /\ i + (j - i) = j
  OBVIOUS
<1> QED
  BY <1>3, <1>4

\* The four ways a log moves an order, with what the scan for each kind does.
LEMMA LogMoves ==
  ASSUME NEW x, NEW e, NEW o, NEW y, OrderMoves(x, e, o, y)
  PROVE  \/ /\ y = x
            /\ \A kind \in OrderKinds : \A r, z : RowMoves(kind, r, e, o, z) => z = r
         \/ /\ x.status = "none" /\ y = StoredRow(e.size, e.size, "OPEN")
            /\ \A r, z : RowMoves("OrderCreated", r, e, o, z) => z = UserRow("open", e.size, 0, e.size)
            /\ \A kind \in OrderKinds \ {"OrderCreated"} : \A r, z : RowMoves(kind, r, e, o, z) => z = r
         \/ /\ x.status \in {"OPEN", "PARTIAL"}
            /\ y = StoredRow(x.size, e.left, IF e.left = 0 THEN "FILLED" ELSE "PARTIAL")
            /\ \A r, z : RowMoves("Trade", r, e, o, z) /\ r # NoOrder /\ r.size = x.size =>
                 z = UserRow(IF e.left = 0 THEN "filled" ELSE "partial", r.size, r.size - e.left, e.left)
            /\ \A kind \in OrderKinds \ {"Trade"} : \A r, z : RowMoves(kind, r, e, o, z) => z = r
         \/ /\ x.status \in {"OPEN", "PARTIAL"} /\ y = StoredRow(x.size, 0, "CANCELLED")
            /\ \A r, z : RowMoves("OrdersCanceled", r, e, o, z) /\ r # NoOrder /\ r.status # "filled" =>
                 z = UserRow("cancelled", r.size, r.filled, 0)
            /\ \A kind \in OrderKinds \ {"OrdersCanceled"} : \A r, z : RowMoves(kind, r, e, o, z) => z = r
<1>1. CASE ~Names(e, o) /\ y = x
  <2>1. \A kind \in OrderKinds : \A r, z : RowMoves(kind, r, e, o, z) => z = r
    BY <1>1 DEF Names, RowMoves, OrderKinds
  <2> QED BY <1>1, <2>1
<1>2. CASE e.ev = "OrderCreated" /\ e.order = o /\ x.status = "none" /\ y = StoredRow(e.size, e.size, "OPEN")
  <2>1. \A r, z : RowMoves("OrderCreated", r, e, o, z) => z = UserRow("open", e.size, 0, e.size)
    BY <1>2 DEF RowMoves
  <2>2. \A kind \in OrderKinds \ {"OrderCreated"} : \A r, z : RowMoves(kind, r, e, o, z) => z = r
    BY <1>2 DEF RowMoves
  <2> QED BY <1>2, <2>1, <2>2
<1>3. CASE /\ e.ev = "Trade" /\ e.order = o
           /\ x.status \in {"OPEN", "PARTIAL"} /\ e.left \in Nat /\ x.size \in Int /\ e.left < x.size
           /\ y = StoredRow(x.size, e.left, IF e.left = 0 THEN "FILLED" ELSE "PARTIAL")
  <2>1. \A r, z : RowMoves("Trade", r, e, o, z) /\ r # NoOrder /\ r.size = x.size =>
          z = UserRow(IF e.left = 0 THEN "filled" ELSE "partial", r.size, r.size - e.left, e.left)
    <3> SUFFICES ASSUME NEW r, NEW z, RowMoves("Trade", r, e, o, z), r # NoOrder, r.size = x.size
                 PROVE  z = UserRow(IF e.left = 0 THEN "filled" ELSE "partial", r.size, r.size - e.left, e.left)
      OBVIOUS
    <3>1. r.size > e.left
      BY <1>3
    <3>2. z = UserRow(IF e.left = 0 THEN "filled" ELSE IF r.size > e.left THEN "partial" ELSE "open",
                      r.size, r.size - e.left, e.left)
      BY <1>3 DEF RowMoves
    <3> QED BY <3>1, <3>2
  <2>2. \A kind \in OrderKinds \ {"Trade"} : \A r, z : RowMoves(kind, r, e, o, z) => z = r
    BY <1>3 DEF RowMoves
  <2> QED BY <1>3, <2>1, <2>2
<1>4. CASE /\ e.ev = "OrdersCanceled" /\ o \in e.orders
           /\ x.status \in {"OPEN", "PARTIAL"} /\ y = StoredRow(x.size, 0, "CANCELLED")
  <2>1. \A r, z : RowMoves("OrdersCanceled", r, e, o, z) /\ r # NoOrder /\ r.status # "filled" =>
          z = UserRow("cancelled", r.size, r.filled, 0)
    BY <1>4 DEF RowMoves
  <2>2. \A kind \in OrderKinds \ {"OrdersCanceled"} : \A r, z : RowMoves(kind, r, e, o, z) => z = r
    BY <1>4 DEF RowMoves
  <2> QED BY <1>4, <2>1, <2>2
<1> QED
  BY <1>1, <1>2, <1>3, <1>4 DEF OrderMoves

-----------------------------------------------------------------------------
(* After the scan for the creations, up to log i; after the trades; after  *)
(* the cancellations: first is the row before the chunk, k its length.     *)

CreatedBy(f, x, i) ==
  IF x[0].status # "none" \/ x[i].status = "none" THEN f[i] = f[0]
  ELSE f[i] = UserRow("open", x[i].size, 0, x[i].size)

Uncancelled(r, size) == IsUserRow(r) /\ r.status \in {"open", "partial"} /\ r.size = size

TradedBy(g, f, x, i, k) ==
  \/ x[i].status = "none" /\ g[i] = f[k]
  \/ x[i].status \in {"OPEN", "PARTIAL", "FILLED"} /\ Like(g[i], x[i])
  \/ x[i].status = "CANCELLED" /\ x[0].status = "CANCELLED" /\ g[i] = f[0]
  \/ x[i].status = "CANCELLED" /\ x[0].status # "CANCELLED" /\ Uncancelled(g[i], x[i].size)

CancelledBy(h, g, x, i, k) ==
  IF x[i].status = "CANCELLED" /\ x[0].status # "CANCELLED" THEN Like(h[i], x[i]) ELSE h[i] = g[k]

LEMMA OpenLike ==
  ASSUME NEW size
  PROVE  /\ Like(UserRow("open", size, 0, size), StoredRow(size, size, "OPEN"))
         /\ \A filled : Like(UserRow("cancelled", size, filled, 0), StoredRow(size, 0, "CANCELLED"))
         /\ \A n, filled : Like(UserRow(IF n = 0 THEN "filled" ELSE "partial", size, filled, n),
                                StoredRow(size, n, IF n = 0 THEN "FILLED" ELSE "PARTIAL"))
<1>1. \A a, b, c, d : IsUserRow(UserRow(a, b, c, d)) /\ UserRow(a, b, c, d).status = a
                      /\ UserRow(a, b, c, d).size = b /\ UserRow(a, b, c, d).left = d
  BY DEF UserRow, IsUserRow
<1>2. \A a, b, c : StoredRow(a, b, c).size = a /\ StoredRow(a, b, c).left = b /\ StoredRow(a, b, c).status = c
  BY DEF StoredRow
<1>3. \A a, b, c, d : a # "none" => UserRow(a, b, c, d) # NoOrder
  BY <1>1, StatusNamesAre
<1>4. {"OPEN", "PARTIAL", "FILLED", "CANCELLED"} \subseteq Statuses
  BY DEF Statuses
<1>5. Like(UserRow("open", size, 0, size), StoredRow(size, size, "OPEN"))
  BY <1>1, <1>2, <1>3, <1>4, StatusNamesAre DEF Like
<1>6. \A filled : Like(UserRow("cancelled", size, filled, 0), StoredRow(size, 0, "CANCELLED"))
  BY <1>1, <1>2, <1>3, <1>4, StatusNamesAre DEF Like
<1>7. ASSUME NEW n, NEW filled
      PROVE  Like(UserRow(IF n = 0 THEN "filled" ELSE "partial", size, filled, n),
                  StoredRow(size, n, IF n = 0 THEN "FILLED" ELSE "PARTIAL"))
  <2>1. CASE n = 0
    <3>1. Like(UserRow("filled", size, filled, n), StoredRow(size, n, "FILLED"))
      BY <1>1, <1>2, <1>3, <1>4, StatusNamesAre DEF Like
    <3> QED BY <2>1, <3>1
  <2>2. CASE n # 0
    <3>1. Like(UserRow("partial", size, filled, n), StoredRow(size, n, "PARTIAL"))
      BY <1>1, <1>2, <1>3, <1>4, StatusNamesAre DEF Like
    <3> QED BY <2>2, <3>1
  <2> QED BY <2>1, <2>2
<1> QED
  BY <1>5, <1>6, <1>7

LEMMA RowRead ==
  ASSUME NEW logs, NEW k \in Nat, k = Len(logs), NEW o, NEW x, ChainRun(x, logs, o),
         NEW f, RowRun("OrderCreated", f, logs, o), Like(f[0], x[0]),
         NEW g, RowRun("Trade", g, logs, o), g[0] = f[k],
         NEW h, RowRun("OrdersCanceled", h, logs, o), h[0] = g[k]
  PROVE  Like(h[k], x[k])
<1>0. \A i \in 0..k, j \in 0..k : i <= j => Grows(x[i], x[j])
  BY RowsGrow
<1>a. \A a, b, c : StoredRow(a, b, c).size = a /\ StoredRow(a, b, c).left = b /\ StoredRow(a, b, c).status = c
  BY DEF StoredRow
<1>b. \A a, b, c, d : IsUserRow(UserRow(a, b, c, d)) /\ UserRow(a, b, c, d).status = a
                      /\ UserRow(a, b, c, d).size = b /\ UserRow(a, b, c, d).left = d
  BY DEF UserRow, IsUserRow
<1>c. "OrderCreated" \in OrderKinds /\ "Trade" \in OrderKinds /\ "OrdersCanceled" \in OrderKinds
      /\ "OrderCreated" \in OrderKinds \ {"Trade"} /\ "OrderCreated" \in OrderKinds \ {"OrdersCanceled"}
      /\ "Trade" \in OrderKinds \ {"OrderCreated"} /\ "Trade" \in OrderKinds \ {"OrdersCanceled"}
      /\ "OrdersCanceled" \in OrderKinds \ {"OrderCreated"} /\ "OrdersCanceled" \in OrderKinds \ {"Trade"}
  BY DEF OrderKinds
<1>d. \A i \in 0..k : Grows(x[0], x[i]) /\ Grows(x[i], x[k])
  BY <1>0
<1>1. \A i \in Nat : i <= k => CreatedBy(f, x, i)
  <2> DEFINE G == {i \in Nat : i <= k => CreatedBy(f, x, i)}
  <2>1. 0 \in G
    BY DEF CreatedBy
  <2>2. ASSUME NEW n \in Nat, n \in G PROVE n + 1 \in G
    <3> SUFFICES ASSUME n + 1 <= k PROVE CreatedBy(f, x, n + 1)
      OBVIOUS
    <3>1. PICK i \in 1..k : i = n + 1 /\ i - 1 = n
      OBVIOUS
    <3> SUFFICES CreatedBy(f, x, i)
      BY <3>1
    <3>2. PICK e : e = logs[i]
      OBVIOUS
    <3>3. OrderMoves(x[n], e, o, x[i]) /\ RowMoves("OrderCreated", f[n], e, o, f[i])
      BY <3>1, <3>2 DEF ChainRun, RowRun
    <3>4. CreatedBy(f, x, n) /\ Grows(x[0], x[n])
      BY <1>d, <2>2, <3>1
    <3>5. CASE x[i] = x[n] /\ f[i] = f[n]
      BY <3>4, <3>5 DEF CreatedBy
    <3>6. CASE x[n].status = "none" /\ x[i] = StoredRow(e.size, e.size, "OPEN") /\ f[i] = UserRow("open", e.size, 0, e.size)
      BY <1>a, <3>4, <3>6 DEF CreatedBy, Grows
    <3>7. CASE x[n].status \in {"OPEN", "PARTIAL"} /\ x[i].status # "none" /\ x[i].size = x[n].size /\ f[i] = f[n]
      BY <3>4, <3>7 DEF CreatedBy
    <3>8. \/ x[i] = x[n] /\ f[i] = f[n]
          \/ x[n].status = "none" /\ x[i] = StoredRow(e.size, e.size, "OPEN") /\ f[i] = UserRow("open", e.size, 0, e.size)
          \/ x[n].status \in {"OPEN", "PARTIAL"} /\ x[i].status # "none" /\ x[i].size = x[n].size /\ f[i] = f[n]
      BY <1>a, <1>c, <3>3, LogMoves
    <3> QED BY <3>1, <3>5, <3>6, <3>7, <3>8
  <2>3. \A i \in Nat : i \in G
    <3> HIDE DEF G
    <3> QED BY <2>1, <2>2, CountInduction
  <2> QED BY <2>3
<1>2. \A i \in Nat : i <= k => TradedBy(g, f, x, i, k)
  <2> DEFINE G == {i \in Nat : i <= k => TradedBy(g, f, x, i, k)}
  <2>0. CreatedBy(f, x, k)
    BY <1>1
  <2>1. 0 \in G
    BY <2>0 DEF CreatedBy, TradedBy, Like, Statuses
  <2>2. ASSUME NEW n \in Nat, n \in G PROVE n + 1 \in G
    <3> SUFFICES ASSUME n + 1 <= k PROVE TradedBy(g, f, x, n + 1, k)
      OBVIOUS
    <3>1. PICK i \in 1..k : i = n + 1 /\ i - 1 = n
      OBVIOUS
    <3> SUFFICES TradedBy(g, f, x, i, k)
      BY <3>1
    <3>2. PICK e : e = logs[i]
      OBVIOUS
    <3>3. OrderMoves(x[n], e, o, x[i]) /\ RowMoves("Trade", g[n], e, o, g[i])
      BY <3>1, <3>2 DEF ChainRun, RowRun
    <3>4. TradedBy(g, f, x, n, k) /\ Grows(x[0], x[n]) /\ Grows(x[i], x[k])
      BY <1>d, <2>2, <3>1
    <3>5. CASE x[i] = x[n] /\ g[i] = g[n]
      BY <3>4, <3>5 DEF TradedBy
    <3>6. CASE x[n].status = "none" /\ x[i] = StoredRow(e.size, e.size, "OPEN") /\ g[i] = g[n]
      <4>1. g[i] = f[k]
        BY <3>4, <3>6 DEF TradedBy
      <4>2. f[k] = UserRow("open", e.size, 0, e.size)
        BY <1>a, <2>0, <3>4, <3>6 DEF Grows, CreatedBy
      <4>3. Like(g[i], x[i])
        BY <3>6, <4>1, <4>2, OpenLike
      <4> QED BY <1>a, <3>6, <4>3 DEF TradedBy
    <3>7. CASE /\ x[n].status \in {"OPEN", "PARTIAL"}
               /\ x[i] = StoredRow(x[n].size, e.left, IF e.left = 0 THEN "FILLED" ELSE "PARTIAL")
               /\ g[n] # NoOrder /\ g[n].size = x[n].size =>
                    g[i] = UserRow(IF e.left = 0 THEN "filled" ELSE "partial", g[n].size, g[n].size - e.left, e.left)
      <4>1. Like(g[n], x[n])
        BY <3>4, <3>7 DEF TradedBy
      <4>2. g[i] = UserRow(IF e.left = 0 THEN "filled" ELSE "partial", x[n].size, x[n].size - e.left, e.left)
        BY <3>7, <4>1 DEF Like
      <4>3. Like(g[i], x[i])
        BY <3>7, <4>2, OpenLike
      <4> QED BY <1>a, <3>7, <4>3 DEF TradedBy
    <3>8. CASE x[n].status \in {"OPEN", "PARTIAL"} /\ x[i] = StoredRow(x[n].size, 0, "CANCELLED") /\ g[i] = g[n]
      <4>1. Like(g[n], x[n])
        BY <3>4, <3>8 DEF TradedBy
      <4>2. Uncancelled(g[i], x[n].size)
        BY <3>8, <4>1, StatusNamesAre DEF Like, Uncancelled
      <4>3. x[0].status # "CANCELLED"
        BY <3>4, <3>8 DEF Grows
      <4> QED BY <1>a, <3>8, <4>2, <4>3 DEF TradedBy
    <3>9. \/ x[i] = x[n] /\ g[i] = g[n]
          \/ x[n].status = "none" /\ x[i] = StoredRow(e.size, e.size, "OPEN") /\ g[i] = g[n]
          \/ /\ x[n].status \in {"OPEN", "PARTIAL"}
             /\ x[i] = StoredRow(x[n].size, e.left, IF e.left = 0 THEN "FILLED" ELSE "PARTIAL")
             /\ g[n] # NoOrder /\ g[n].size = x[n].size =>
                  g[i] = UserRow(IF e.left = 0 THEN "filled" ELSE "partial", g[n].size, g[n].size - e.left, e.left)
          \/ x[n].status \in {"OPEN", "PARTIAL"} /\ x[i] = StoredRow(x[n].size, 0, "CANCELLED") /\ g[i] = g[n]
      BY <1>c, <3>3, LogMoves
    <3> QED BY <3>1, <3>5, <3>6, <3>7, <3>8, <3>9
  <2>3. \A i \in Nat : i \in G
    <3> HIDE DEF G
    <3> QED BY <2>1, <2>2, CountInduction
  <2> QED BY <2>3
<1>3. \A i \in Nat : i <= k => CancelledBy(h, g, x, i, k)
  <2> DEFINE G == {i \in Nat : i <= k => CancelledBy(h, g, x, i, k)}
  <2>0. TradedBy(g, f, x, k, k)
    BY <1>2
  <2>1. 0 \in G
    BY DEF CancelledBy
  <2>2. ASSUME NEW n \in Nat, n \in G PROVE n + 1 \in G
    <3> SUFFICES ASSUME n + 1 <= k PROVE CancelledBy(h, g, x, n + 1, k)
      OBVIOUS
    <3>1. PICK i \in 1..k : i = n + 1 /\ i - 1 = n
      OBVIOUS
    <3> SUFFICES CancelledBy(h, g, x, i, k)
      BY <3>1
    <3>2. PICK e : e = logs[i]
      OBVIOUS
    <3>3. OrderMoves(x[n], e, o, x[i]) /\ RowMoves("OrdersCanceled", h[n], e, o, h[i])
      BY <3>1, <3>2 DEF ChainRun, RowRun
    <3>4. CancelledBy(h, g, x, n, k) /\ Grows(x[0], x[n]) /\ Grows(x[i], x[k])
      BY <1>d, <2>2, <3>1
    <3>5. CASE x[i] = x[n] /\ h[i] = h[n]
      BY <3>4, <3>5 DEF CancelledBy
    <3>6. CASE x[n].status # "CANCELLED" /\ x[i].status # "CANCELLED" /\ h[i] = h[n]
      BY <3>4, <3>6 DEF CancelledBy
    <3>7. CASE /\ x[n].status \in {"OPEN", "PARTIAL"} /\ x[i] = StoredRow(x[n].size, 0, "CANCELLED")
               /\ h[n] # NoOrder /\ h[n].status # "filled" => h[i] = UserRow("cancelled", h[n].size, h[n].filled, 0)
      <4>1. h[n] = g[k]
        BY <3>4, <3>7 DEF CancelledBy
      <4>2. x[i].status = "CANCELLED" /\ x[k] = x[i] /\ x[0].status # "CANCELLED" /\ x[i].size = x[n].size
        BY <1>a, <3>4, <3>7 DEF Grows
      <4>3. Uncancelled(g[k], x[n].size)
        BY <2>0, <4>2 DEF TradedBy
      <4>4. h[i] = UserRow("cancelled", x[n].size, h[n].filled, 0)
        BY <3>7, <4>1, <4>3, StatusNamesAre DEF Uncancelled
      <4>5. Like(h[i], x[i])
        BY <3>7, <4>4, OpenLike
      <4> QED BY <4>2, <4>5, <3>1 DEF CancelledBy
    <3>8. \/ x[i] = x[n] /\ h[i] = h[n]
          \/ x[n].status # "CANCELLED" /\ x[i].status # "CANCELLED" /\ h[i] = h[n]
          \/ /\ x[n].status \in {"OPEN", "PARTIAL"} /\ x[i] = StoredRow(x[n].size, 0, "CANCELLED")
             /\ h[n] # NoOrder /\ h[n].status # "filled" => h[i] = UserRow("cancelled", h[n].size, h[n].filled, 0)
      BY <1>a, <1>c, <3>3, LogMoves
    <3> QED BY <3>1, <3>5, <3>6, <3>7, <3>8
  <2>3. \A i \in Nat : i \in G
    <3> HIDE DEF G
    <3> QED BY <2>1, <2>2, CountInduction
  <2> QED BY <2>3
<1>4. CreatedBy(f, x, k) /\ TradedBy(g, f, x, k, k) /\ CancelledBy(h, g, x, k, k) /\ Grows(x[0], x[k])
  BY <1>1, <1>2, <1>3, <1>d
<1>5. CASE x[k].status = "none"
  <2>1. h[k] = f[0] /\ x[k] = x[0]
    BY <1>4, <1>5 DEF CreatedBy, TradedBy, CancelledBy, Grows
  <2> QED BY <2>1
<1>6. CASE x[k].status \in {"OPEN", "PARTIAL", "FILLED"}
  BY <1>4, <1>6 DEF TradedBy, CancelledBy
<1>7. CASE x[k].status = "CANCELLED" /\ x[0].status = "CANCELLED"
  <2>1. h[k] = f[0] /\ x[k] = x[0]
    BY <1>4, <1>7 DEF TradedBy, CancelledBy, Grows
  <2> QED BY <2>1
<1>8. CASE x[k].status = "CANCELLED" /\ x[0].status # "CANCELLED"
  BY <1>4, <1>8 DEF CancelledBy
<1> QED
  BY <1>4, <1>5, <1>6, <1>7, <1>8 DEF TradedBy

-----------------------------------------------------------------------------
(* The chunks *)

PathUpTo(logs, i, j) == IsSeq(logs) /\ \E p : Path(p, logs, WorldIn(blocks, i), WorldIn(blocks, j))

LEMMA SameFollows ==
  ASSUME NEW w, NEW x, NEW y, Same(x, w), Same(y, w), NEW e, NEW v, Follows(y, e, v)
  PROVE  Follows(x, e, v)
<1>1. x.opened = y.opened /\ x.listed = y.listed /\ x.bal = y.bal /\ x.auction = y.auction
      /\ x.orders = y.orders /\ x.size = y.size /\ x.left = y.left
  BY DEF Same
<1>2. \A o : OrderOf(x, o) = OrderOf(y, o)
  BY <1>1 DEF OrderOf
<1>3. v.listed \subseteq y.listed \cup Lists(e) /\ v.bal = Record(y.bal, e) /\ v.opened = y.opened \cup Opens(e)
  BY DEF Follows, Marks
<1>4. AuctionsMove(x, e, v)
  BY <1>1 DEF Follows, Marks, AuctionsMove
<1>5. \A o \in Orders : OrderMoves(OrderOf(x, o), e, o, OrderOf(v, o))
  BY <1>2 DEF Follows, Marks
<1> QED
  BY <1>1, <1>3, <1>4, <1>5 DEF Follows, Marks

LEMMA PathsJoin ==
  ASSUME NEW s, NEW t, IsSeq(s), IsSeq(t), NEW u, NEW w, NEW v, NEW p, Path(p, s, u, w), NEW q, Path(q, t, w, v),
         NEW more, more = s \o t
  PROVE  IsSeq(more) /\ \E r : Path(r, more, u, v)
<1>1. /\ IsSeq(more) /\ Len(s) \in Nat /\ Len(t) \in Nat /\ Len(more) = Len(s) + Len(t)
      /\ \A i \in 1..Len(s) : more[i] = s[i]
      /\ \A i \in 1..Len(t) : more[Len(s) + i] = t[i]
  BY Joined
<1>2. PICK n \in Nat : n = Len(s)
  BY <1>1
<1>3. PICK m \in Nat : m = Len(t)
  BY <1>1
<1>4. PICK r : r = [i \in 0..(n + m) |-> IF i <= n THEN p[i] ELSE q[i - n]]
  OBVIOUS
<1>5. /\ \A i \in 0..n : r[i] = p[i]
      /\ \A i \in 1..m : r[n + i] = q[i]
  <2>1. \A i \in 0..n : i \in 0..(n + m) /\ i <= n
    OBVIOUS
  <2>2. ASSUME NEW i \in 1..m PROVE r[n + i] = q[i]
    <3>1. n + i \in 0..(n + m) /\ ~(n + i <= n) /\ (n + i) - n = i
      OBVIOUS
    <3> QED BY <1>4, <3>1
  <2> QED BY <1>4, <2>1, <2>2
<1>6. Same(r[0], u)
  BY <1>5 DEF Path
<1>7. Same(p[n], w) /\ Same(q[0], w) /\ Same(q[m], v)
  BY <1>2, <1>3 DEF Path
<1>8. Same(r[n + m], v)
  <2>1. CASE m = 0
    <3>1. n + m = n /\ r[n] = p[n]
      BY <1>5, <2>1
    <3>2. Same(q[0], v)
      BY <1>7, <2>1
    <3>3. Same(p[n], v)
      BY <1>7, <3>2 DEF Same
    <3> QED BY <3>1, <3>3
  <2>2. CASE m # 0
    <3>1. r[n + m] = q[m]
      BY <1>5, <2>2
    <3> QED BY <1>7, <3>1
  <2> QED BY <2>1, <2>2
<1>9. ASSUME NEW i \in 1..(n + m) PROVE Follows(r[i - 1], more[i], r[i])
  <2>1. CASE i <= n
    <3>1. i \in 1..n /\ i - 1 \in 0..n /\ i \in 0..n
      BY <2>1
    <3>2. Follows(p[i - 1], s[i], p[i])
      BY <1>2, <3>1 DEF Path
    <3> QED BY <1>1, <1>2, <1>5, <3>1, <3>2
  <2>2. CASE i = n + 1
    <3>1. 1 \in 1..m /\ i - 1 = n /\ n \in 0..n
      BY <2>2
    <3>2. Follows(q[0], t[1], q[1])
      BY <1>3, <3>1 DEF Path
    <3>3. Follows(p[n], t[1], q[1])
      BY <1>7, <3>2, SameFollows
    <3>4. more[i] = t[1] /\ r[i] = q[1] /\ r[i - 1] = p[n]
      BY <1>1, <1>2, <1>3, <1>5, <2>2, <3>1
    <3> QED BY <3>3, <3>4
  <2>3. CASE i > n + 1
    <3>1. PICK j \in 1..m : i = n + j /\ j - 1 \in 1..m /\ i - 1 = n + (j - 1)
      <4>1. i - n \in 1..m /\ i = n + (i - n) /\ (i - n) - 1 \in 1..m /\ i - 1 = n + ((i - n) - 1)
        BY <2>3
      <4> QED BY <4>1
    <3>2. Follows(q[j - 1], t[j], q[j])
      BY <1>3 DEF Path
    <3>3. more[i] = t[j] /\ r[i] = q[j] /\ r[i - 1] = q[j - 1]
      BY <1>1, <1>2, <1>3, <1>5, <3>1
    <3> QED BY <3>2, <3>3
  <2>4. i <= n \/ i = n + 1 \/ i > n + 1
    <3>1. i \in Nat /\ n \in Nat
      BY <1>1, <1>2 DEF Path, IsSeq
    <3> QED BY <3>1
  <2> QED BY <2>1, <2>2, <2>3, <2>4
<1>10. Path(r, more, u, v)
  BY <1>1, <1>2, <1>3, <1>6, <1>8, <1>9 DEF Path
<1> QED
  BY <1>1, <1>10

LEMMA ChunkPath ==
  ASSUME ChainSound(blocks, mined), NEW from \in Nat, NEW to \in Nat, 1 <= from, from <= to, to <= Tip
  PROVE  PathUpTo(LogsIn(from, to), from - 1, to)
<1>1. PICK k \in Nat : k = to - from + 1
  OBVIOUS
<1>2. PICK i \in Nat : i = from - 1
  OBVIOUS
<1>3. PICK r : Runs(r, <<"chunk", from>>, <<>>, k) /\ r[k] = LogsIn(from, to)
  BY <1>1, ChunkRuns
<1>4. r[0] = <<>> /\ \A n \in 1..k : r[n] = r[n - 1] \o blocks[from + n - 1].logs
  BY <1>3 DEF Runs, Step
<1> DEFINE G == {n \in Nat : n <= k => PathUpTo(r[n], i, i + n)}
<1>5. 0 \in G
  <2>1. IsSeq(<<>>) /\ \E p : Path(p, <<>>, WorldIn(blocks, i), WorldIn(blocks, i))
    BY NoneSent, NoneTracked DEF Tracked
  <2> QED BY <1>2, <1>4, <2>1 DEF PathUpTo
<1>6. ASSUME NEW n \in Nat, n \in G PROVE n + 1 \in G
  <2> SUFFICES ASSUME n + 1 <= k PROVE PathUpTo(r[n + 1], i, i + (n + 1))
    OBVIOUS
  <2>1. Tip \in Nat
    BY TipSound
  <2>2. PICK j \in Nat : j = i + n
    OBVIOUS
  <2>3. n + 1 \in 1..k /\ (n + 1) - 1 = n /\ from + (n + 1) - 1 = j + 1 /\ i <= j /\ j + 1 <= Tip /\ i + (n + 1) = j + 1
    BY <1>1, <1>2, <2>1, <2>2
  <2>4. r[n + 1] = r[n] \o blocks[j + 1].logs
    BY <1>4, <2>3
  <2>5. PathUpTo(r[n], i, j)
    BY <1>6, <2>2, <2>3
  <2>6. PICK b \in 1..Tip : b = j + 1 /\ b # 0 /\ b - 1 = j
    BY <2>1, <2>3
  <2>7. BlockSound(blocks, mined, b)
    BY DEF ChainSound, Tip
  <2>8. IsSeq(blocks[b].logs) /\ \E q : Path(q, blocks[b].logs, WorldIn(blocks, j), WorldIn(blocks, b))
    BY <2>6, <2>7 DEF BlockSound, Tracked, WorldIn
  <2>9. PathUpTo(r[n + 1], i, b)
    BY <2>4, <2>5, <2>6, <2>8, PathsJoin DEF PathUpTo
  <2> QED BY <2>3, <2>6, <2>9
<1>7. \A n \in Nat : n \in G
  <2> HIDE DEF G
  <2> QED BY <1>5, <1>6, CountInduction
<1>8. PathUpTo(r[k], i, i + k)
  BY <1>7
<1>9. i + k = to
  BY <1>1, <1>2
<1> QED
  BY <1>2, <1>3, <1>8, <1>9

-----------------------------------------------------------------------------
\* The orders read are those of the state w.
ReadAs(m, w) == IsUserRows(m) /\ \A o \in Orders : Like(m[o], OrderOf(w, o))

ReadAll(m, logs) ==
  ReadKind("OrdersCanceled", ReadKind("Trade", ReadKind("OrderCreated", m, logs), logs), logs)

LEMMA ChunkOrders ==
  ASSUME NEW logs, NEW i, NEW j, PathUpTo(logs, i, j), NEW m, ReadAs(m, WorldIn(blocks, i)),
         NEW z, z = ReadAll(m, logs)
  PROVE  ReadAs(z, WorldIn(blocks, j))
<1>1. IsSeq(logs)
  BY DEF PathUpTo
<1>2. PICK k \in Nat : k = Len(logs)
  BY <1>1, LengthIs
<1>3. PICK p : Path(p, logs, WorldIn(blocks, i), WorldIn(blocks, j))
  BY DEF PathUpTo
<1>4. PICK f : KindRun(f, "OrderCreated", m, logs) /\ f[k] = ReadKind("OrderCreated", m, logs)
  BY <1>1, <1>2, KindRuns
<1>5. PICK g : KindRun(g, "Trade", f[k], logs) /\ g[k] = ReadKind("Trade", f[k], logs)
  BY <1>1, <1>2, KindRuns
<1>6. PICK h : KindRun(h, "OrdersCanceled", g[k], logs) /\ h[k] = ReadKind("OrdersCanceled", g[k], logs)
  BY <1>1, <1>2, KindRuns
<1>7. z = h[k]
  BY <1>4, <1>5, <1>6 DEF ReadAll
<1>8. IsUserRows(f[k]) /\ \A o \in Orders : \A n \in 1..Len(logs) : RowMoves("OrderCreated", f[n - 1][o], logs[n], o, f[n][o])
  BY <1>1, <1>2, <1>4, KindMoves DEF ReadAs, OrderKinds
<1>9. IsUserRows(g[k]) /\ \A o \in Orders : \A n \in 1..Len(logs) : RowMoves("Trade", g[n - 1][o], logs[n], o, g[n][o])
  BY <1>1, <1>2, <1>5, <1>8, KindMoves DEF OrderKinds
<1>10. IsUserRows(h[k]) /\ \A o \in Orders : \A n \in 1..Len(logs) : RowMoves("OrdersCanceled", h[n - 1][o], logs[n], o, h[n][o])
  BY <1>1, <1>2, <1>6, <1>9, KindMoves DEF OrderKinds
<1>11. ASSUME NEW o \in Orders PROVE Like(h[k][o], OrderOf(WorldIn(blocks, j), o))
  <2>1. PICK x : x = [n \in 0..k |-> OrderOf(p[n], o)]
    OBVIOUS
  <2>2. ChainRun(x, logs, o)
    <3> SUFFICES ASSUME NEW n \in 1..k PROVE OrderMoves(x[n - 1], logs[n], o, x[n])
      BY <1>2 DEF ChainRun
    <3>1. x[n - 1] = OrderOf(p[n - 1], o) /\ x[n] = OrderOf(p[n], o)
      BY <2>1
    <3>2. Follows(p[n - 1], logs[n], p[n])
      BY <1>2, <1>3 DEF Path
    <3> QED BY <3>1, <3>2 DEF Follows, Marks
  <2>3. PICK F : F = [n \in 0..k |-> f[n][o]]
    OBVIOUS
  <2>4. PICK G : G = [n \in 0..k |-> g[n][o]]
    OBVIOUS
  <2>5. PICK H : H = [n \in 0..k |-> h[n][o]]
    OBVIOUS
  <2>6. \A n \in 1..k : n - 1 \in 0..k /\ n \in 0..k
    OBVIOUS
  <2>7. RowRun("OrderCreated", F, logs, o)
    BY <1>2, <1>8, <2>3, <2>6 DEF RowRun
  <2>8. RowRun("Trade", G, logs, o)
    BY <1>2, <1>9, <2>4, <2>6 DEF RowRun
  <2>9. RowRun("OrdersCanceled", H, logs, o)
    BY <1>2, <1>10, <2>5, <2>6 DEF RowRun
  <2>10. f[0] = m /\ g[0] = f[k] /\ h[0] = g[k]
    BY <1>4, <1>5, <1>6 DEF KindRun
  <2>11. F[0] = m[o] /\ G[0] = F[k] /\ H[0] = G[k] /\ H[k] = h[k][o]
    BY <2>3, <2>4, <2>5, <2>10
  <2>12. x[0] = OrderOf(WorldIn(blocks, i), o) /\ x[k] = OrderOf(WorldIn(blocks, j), o)
    <3>1. x[0] = OrderOf(p[0], o) /\ x[k] = OrderOf(p[k], o)
      BY <2>1
    <3>2. Same(p[0], WorldIn(blocks, i)) /\ Same(p[k], WorldIn(blocks, j))
      BY <1>2, <1>3 DEF Path
    <3> QED BY <3>1, <3>2 DEF Same, OrderOf
  <2>13. Like(F[0], x[0])
    BY <2>11, <2>12 DEF ReadAs
  <2>14. Like(H[k], x[k])
    BY <1>2, <2>2, <2>7, <2>8, <2>9, <2>11, <2>13, RowRead
  <2> QED BY <2>11, <2>12, <2>14
<1> QED
  BY <1>7, <1>10, <1>11 DEF ReadAs

-----------------------------------------------------------------------------
\* The chunks cover the chain, one after the other.
Edge(c) == IF c * LogChunk < Tip THEN c * LogChunk ELSE Tip
LastChunk == (Tip + LogChunk - 1) \div LogChunk

LEMMA ChunksCover ==
  ASSUME Tip \in Nat
  PROVE  /\ LastChunk \in Nat /\ Chunks = 1..LastChunk /\ Edge(0) = 0 /\ Edge(LastChunk) = Tip
         /\ \A c \in 1..LastChunk :
              /\ Edge(c - 1) \in Nat /\ Edge(c) \in Nat /\ Edge(c - 1) < Edge(c) /\ Edge(c) <= Tip
              /\ ChunkLogs(c) = LogsIn(Edge(c - 1) + 1, Edge(c))
<1>1. PICK L \in Nat : L = LogChunk /\ L > 0
  BY ReadsAssumption
<1>2. PICK q \in Nat : q = LastChunk
  BY <1>1 DEF LastChunk
<1>3. q * L <= Tip + L - 1 /\ Tip + L - 1 < q * L + L
  <2>1. PICK r \in Int : r = (Tip + L - 1) % L
    BY <1>1
  <2>2. Tip + L - 1 = L * q + r /\ 0 <= r /\ r < L
    BY <1>1, <1>2, <2>1 DEF LastChunk
  <2>3. L * q = q * L /\ q * L \in Nat
    OBVIOUS
  <2> QED BY <2>2, <2>3
<1>4. Chunks = 1..q
  BY <1>2 DEF Chunks, LastChunk
<1>5. Edge(0) = 0
  <2>1. 0 * L = 0
    OBVIOUS
  <2> QED BY <1>1, <2>1 DEF Edge
<1>6. Edge(q) = Tip
  <2>1. q * L >= Tip /\ q * L \in Nat
    BY <1>3
  <2> QED BY <1>1, <2>1 DEF Edge
<1>7. ASSUME NEW c \in 1..q
      PROVE  /\ Edge(c - 1) \in Nat /\ Edge(c) \in Nat /\ Edge(c - 1) < Edge(c) /\ Edge(c) <= Tip
             /\ ChunkLogs(c) = LogsIn(Edge(c - 1) + 1, Edge(c))
  <2>1. PICK n \in Nat : n = c * L
    OBVIOUS
  <2>2. PICK o \in Nat : o = (c - 1) * L
    OBVIOUS
  <2>3. n = o + L
    BY <2>1, <2>2
  <2>4. n <= q * L
    <3>1. q - c \in Nat
      OBVIOUS
    <3>2. (q - c) * L >= 0 /\ q * L = c * L + (q - c) * L
      BY <3>1
    <3> QED BY <2>1, <3>2
  <2>5. o < Tip
    BY <1>3, <2>3, <2>4
  <2>6. Edge(c - 1) = o
    BY <1>1, <2>2, <2>5 DEF Edge
  <2>7. Edge(c) = IF n < Tip THEN n ELSE Tip
    BY <1>1, <2>1 DEF Edge
  <2>8. ChunkLogs(c) = LogsIn(o + 1, Edge(c))
    BY <1>1, <2>2 DEF ChunkLogs, Edge
  <2> QED BY <1>1, <2>3, <2>5, <2>6, <2>7, <2>8
<1> QED
  BY <1>2, <1>4, <1>5, <1>6, <1>7

LEMMA ChunksRun ==
  ASSUME NEW k \in Nat, Chunks = 1..k
  PROVE  \E r : r[0] = NoOrders /\ (\A c \in 1..k : r[c] = ReadChunk(r[c - 1], c)) /\ r[k] = UserOrders
<1> DEFINE n == <<"chunks">>
           seq == [c \in Chunks |-> c]
           Choice(h, s) == ReadChunk(h[s \ {Max(s)}], seq[Max(s)])
           Is(h) == h = [s \in SUBSET (DOMAIN seq) |-> IF s = {} THEN NoOrders ELSE Choice(h, s)]
           H == CHOOSE h : Is(h)
<1>1. UserOrders = H[DOMAIN seq]
  BY DEF UserOrders, FoldLeft, MapThenFoldSet
<1>2. PICK g : g = [s \in SUBSET (1..k) |-> g[s]] /\ IsRun(g, n, NoOrders, k)
  BY RunExists
<1>3. \A u, i : Step(n, u, i) = ReadChunk(u, i)
  BY DEF Step
<1>5. DOMAIN seq = 1..k
  OBVIOUS
<1>a. ASSUME NEW h, NEW s \in SUBSET (1..k), s # {} PROVE Choice(h, s) = Step(n, h[s \ {Max(s)}], Max(s))
  <2>0. seq[Max(s)] = Max(s)
    BY <1>a, MaxIn
  <2> HIDE DEF n, seq
  <2> QED BY <1>3, <2>0
<1> HIDE DEF n
<1>4. Is(g)
  <2> SUFFICES g = [s \in SUBSET (1..k) |-> IF s = {} THEN NoOrders ELSE Choice(g, s)]
    BY <1>5
  <2> HIDE DEF Choice
  <2>1. \A s \in SUBSET (1..k) : g[s] = IF s = {} THEN NoOrders ELSE Choice(g, s)
    BY <1>2, <1>a DEF IsRun
  <2> QED BY <1>2, <2>1
<1>6. Is(H)
  <2> HIDE DEF Is
  <2> QED BY <1>4
<1>7. H = [s \in SUBSET (1..k) |-> IF s = {} THEN NoOrders ELSE Choice(H, s)]
  <2> HIDE DEF H, Choice, seq
  <2> QED BY <1>5, <1>6
<1> HIDE DEF H, Choice, seq
<1>8. \A s \in SUBSET (1..k) : H[s] = IF s = {} THEN NoOrders ELSE Choice(H, s)
  BY <1>7
<1>9. IsRun(H, n, NoOrders, k)
  BY <1>a, <1>8 DEF IsRun
<1>10. PICK r : Runs(r, n, NoOrders, k) /\ r[k] = H[1..k]
  BY <1>9, RunOf
<1>11. r[0] = NoOrders /\ \A c \in 1..k : r[c] = ReadChunk(r[c - 1], c)
  BY <1>3, <1>10 DEF Runs
<1> QED
  BY <1>1, <1>5, <1>10, <1>11

\* The orders of the user, whatever the chunks.
LEMMA OrdersRead ==
  ASSUME ChainSound(blocks, mined)
  PROVE  ReadAs(UserOrders, Now)
<1>1. Tip \in Nat /\ Now = WorldIn(blocks, Tip)
  BY TipSound
<1>2. PICK k \in Nat : k = LastChunk
  BY <1>1, ChunksCover
<1>3. PICK r : r[0] = NoOrders /\ (\A c \in 1..k : r[c] = ReadChunk(r[c - 1], c)) /\ r[k] = UserOrders
  BY <1>1, <1>2, ChunksCover, ChunksRun
<1> DEFINE G == {c \in Nat : c <= k => ReadAs(r[c], WorldIn(blocks, Edge(c)))}
<1>4. 0 \in G
  <2>1. IsUserRow(NoOrder)
    BY StatusNamesAre DEF IsUserRow, UserRow
  <2>2. IsUserRows(NoOrders)
    BY <2>1 DEF IsUserRows, NoOrders
  <2>3. ASSUME NEW o \in Orders PROVE Like(NoOrders[o], OrderOf(Genesis, o))
    <3>1. NoOrders[o] = NoOrder
      BY DEF NoOrders
    <3>2. OrderOf(Genesis, o) = StoredRow(0, 0, "none")
      BY DEF OrderOf, Genesis
    <3>3. NoOrder.size = 0 /\ NoOrder.left = 0 /\ "none" \in Statuses
      BY DEF NoOrder, Statuses
    <3> QED BY <2>1, <3>1, <3>2, <3>3, StatusNamesAre DEF Like, StoredRow
  <2>4. WorldIn(blocks, Edge(0)) = Genesis
    BY <1>1, ChunksCover DEF WorldIn
  <2> QED BY <1>3, <2>2, <2>3, <2>4 DEF ReadAs
<1>5. ASSUME NEW n \in Nat, n \in G PROVE n + 1 \in G
  <2> SUFFICES ASSUME n + 1 <= k PROVE ReadAs(r[n + 1], WorldIn(blocks, Edge(n + 1)))
    OBVIOUS
  <2>1. PICK c \in 1..k : c = n + 1 /\ c - 1 = n
    OBVIOUS
  <2>2. PICK i \in Nat : i = Edge(c - 1)
    BY <1>1, <1>2, ChunksCover
  <2>3. PICK j \in Nat : j = Edge(c)
    BY <1>1, <1>2, ChunksCover
  <2>4. i < j /\ j <= Tip /\ ChunkLogs(c) = LogsIn(i + 1, j)
    BY <1>1, <1>2, <2>2, <2>3, ChunksCover
  <2>5. PICK logs : logs = LogsIn(i + 1, j)
    OBVIOUS
  <2>6. PathUpTo(logs, i, j)
    <3>1. i + 1 \in Nat /\ 1 <= i + 1 /\ i + 1 <= j /\ (i + 1) - 1 = i
      BY <2>4
    <3>2. PathUpTo(LogsIn(i + 1, j), (i + 1) - 1, j)
      BY <2>4, <3>1, ChunkPath
    <3> QED BY <2>5, <3>1, <3>2
  <2>7. r[c] = ReadAll(r[n], logs)
    BY <1>3, <2>1, <2>4, <2>5 DEF ReadChunk, ReadAll
  <2>8. ReadAs(r[n], WorldIn(blocks, i))
    BY <1>5, <2>1, <2>2
  <2>9. ReadAs(r[c], WorldIn(blocks, j))
    BY <2>6, <2>7, <2>8, ChunkOrders
  <2> QED BY <2>1, <2>3, <2>9
<1>6. \A c \in Nat : c \in G
  <2> HIDE DEF G
  <2> QED BY <1>4, <1>5, CountInduction
<1>7. ReadAs(r[k], WorldIn(blocks, Edge(k)))
  BY <1>6
<1> QED
  BY <1>1, <1>2, <1>3, <1>7, ChunksCover

-----------------------------------------------------------------------------
(* 6. What has been written covers what is in the wallets *)

LEMMA AddsNatural ==
  ASSUME NEW S, IsFiniteSet(S), NEW g \in [S -> Int], \A x \in S : g[x] >= 0, NEW j, Adds(j, g, S)
  PROVE  j[S] \in Int /\ j[S] >= 0
<1> DEFINE G == {s \in SUBSET S : j[s] \in Int /\ j[s] >= 0}
<1>1. {} \in G
  <2>1. {} \in SUBSET S /\ j[{}] = 0
    BY DEF Adds
  <2> QED BY <2>1
<1>2. ASSUME NEW s \in SUBSET S, s # {}, s \ {First(s)} \in G PROVE s \in G
  <2>1. PICK x \in S : x = First(s)
    BY <1>2, FirstIn
  <2>2. j[s] = g[x] + j[s \ {x}]
    BY <1>2, <2>1 DEF Adds
  <2>3. j[s \ {x}] \in Int /\ j[s \ {x}] >= 0 /\ g[x] \in Int /\ g[x] >= 0
    BY <1>2, <2>1
  <2>4. j[s] \in Int /\ j[s] >= 0
    BY <2>2, <2>3
  <2> QED BY <2>4
<1>3. \A s \in SUBSET S : s \in G
  <2> HIDE DEF G
  <2> QED BY <1>1, <1>2, SubsetInduction
<1> QED
  BY <1>3

LEMMA LongNatural ==
  ASSUME NEW bal \in Balances, NEW s \in Series
  PROVE  LongOf(bal, s) \in Int /\ LongOf(bal, s) >= 0
<1>1. PICK h \in [SUBSET Accounts -> Int] : Adds(h, [a \in Accounts |-> Max0(bal[a][s])], Accounts)
                                            /\ LongOf(bal, s) = h[Accounts]
  BY LongAdds
<1>2. PICK g : g = [a \in Accounts |-> Max0(bal[a][s])]
  OBVIOUS
<1>3. g \in [Accounts -> Int] /\ \A a \in Accounts : g[a] >= 0
  BY <1>2 DEF Balances, Max0
<1>4. IsFiniteSet(Accounts)
  BY ChainAssumption
<1>5. h[Accounts] \in Int /\ h[Accounts] >= 0
  BY <1>1, <1>2, <1>3, <1>4, AddsNatural
<1> QED
  BY <1>1, <1>5

\* Those that are short have written all that is short.
LEMMA WrittenIsShort ==
  ASSUME NEW bal \in Balances, NEW s \in Series, NEW W, W = {a \in Accounts : bal[a][s] < 0}
  PROVE  WrittenOf(W, bal, s) = ShortOf(bal, s)
<1>1. PICK h \in [SUBSET Accounts -> Int] : Adds(h, [a \in Accounts |-> Max0(-bal[a][s])], Accounts)
                                            /\ ShortOf(bal, s) = h[Accounts]
  BY ShortAdds
<1>2. PICK f : f = [a \in Accounts |-> Max0(-bal[a][s])]
  OBVIOUS
<1>3. \A i \in Int : -i \in Int /\ Max0(-i) = IF i < 0 THEN -i ELSE 0
  BY DEF Max0
<1>4. \A a \in Accounts : bal[a][s] \in Int
  BY DEF Balances
<1>5. f \in [Accounts -> Int] /\ \A a \in Accounts \ W : f[a] = 0
  BY <1>2, <1>3, <1>4
<1>6. PICK g : g = [a \in W |-> -bal[a][s]]
  OBVIOUS
<1>7. g \in [W -> Int] /\ \A a \in W : g[a] = f[a]
  BY <1>2, <1>3, <1>4, <1>6
<1>8. W \in SUBSET Accounts /\ IsFiniteSet(W) /\ IsFiniteSet(Accounts)
  BY FS_Subset, ChainAssumption
<1>9. h[Accounts] = h[W]
  BY <1>1, <1>2, <1>5, <1>8, AddsWithin
<1>10. PICK k : k = [r \in SUBSET W |-> h[r]]
  OBVIOUS
<1>11. Adds(k, g, W)
  <2>1. ASSUME NEW r \in SUBSET W PROVE k[r] = IF r = {} THEN 0 ELSE g[First(r)] + k[r \ {First(r)}]
    <3>1. k[r] = h[r] /\ k[r \ {First(r)}] = h[r \ {First(r)}] /\ r \in SUBSET Accounts
      BY <1>8, <1>10
    <3>2. r # {} => g[First(r)] = f[First(r)]
      BY <1>7, FirstIn
    <3> QED BY <1>1, <1>2, <3>1, <3>2 DEF Adds
  <2> QED BY <2>1 DEF Adds
<1>12. k[W] = RowSum(W, g)
  BY <1>7, <1>8, <1>11, SumIs
<1>13. WrittenOf(W, bal, s) = RowSum(W, g)
  BY <1>4, <1>6, <1>8, WrittenAdds
<1> QED
  BY <1>1, <1>9, <1>10, <1>12, <1>13

LEMMA WrittenCovers ==
  ASSUME ChainSound(blocks, mined), NEW s \in Series, Live
  PROVE  Backing(s).written >= Backing(s).inWallets
<1>1. Now \in Worlds /\ Even(Now)
  BY TipSound DEF Sound
<1>2. PICK bal \in Balances : bal = Now.bal
  BY <1>1 DEF Worlds
<1>3. PICK W : W = {a \in Accounts : bal[a][s] < 0}
  OBVIOUS
<1>4. WrittenOf(W, bal, s) = ShortOf(bal, s)
  BY <1>3, WrittenIsShort
<1>5. Backing(s) = [writers |-> Writers(s), written |-> WrittenOf(Writers(s), Now.bal, s),
                    inWallets |-> SupplyOf(Now.held, s)]
  BY BackingIs
<1>6. Writers(s) = W
  BY <1>2, <1>3 DEF Writers
<1>7. Backing(s).written = ShortOf(Now.bal, s) /\ Backing(s).inWallets = SupplyOf(Now.held, s)
  BY <1>2, <1>4, <1>5, <1>6
<1>8. NetOf(Now, s) = 0
  BY <1>1 DEF Even, Live
<1>9. LongOf(Now.bal, s) \in Int /\ ShortOf(Now.bal, s) \in Int /\ SupplyOf(Now.held, s) \in Int
  BY <1>1, NetIs
<1>10. LongOf(bal, s) >= 0
  BY LongNatural
<1>11. LongOf(Now.bal, s) >= 0
  BY <1>2, <1>10
<1> QED
  BY <1>7, <1>8, <1>9, <1>11 DEF NetOf

-----------------------------------------------------------------------------
(* The orders *)

LEMMA OrdersShown ==
  ASSUME ChainSound(blocks, mined), NEW o \in Orders
  PROVE  /\ UserOrders[o].status = StatusNames[Now.orders[o]] /\ UserOrders[o].size = Now.size[o]
         /\ UserOrders[o].left = Now.left[o] /\ (UserOrders[o] = NoOrder <=> Now.orders[o] = "none")
<1>1. Like(UserOrders[o], OrderOf(Now, o))
  BY OrdersRead DEF ReadAs
<1>2. OrderOf(Now, o).status = Now.orders[o] /\ OrderOf(Now, o).size = Now.size[o] /\ OrderOf(Now, o).left = Now.left[o]
  BY DEF OrderOf, StoredRow
<1> QED
  BY <1>1, <1>2 DEF Like

\* The rows of the index are those the app reads.
LEMMA LevelOrders ==
  ASSUME IndexSound, seen = Ids
  PROVE  LET orders == {o \in Orders : UserOrders[o] # NoOrder} IN
           KuruOrdersRoute = [o \in orders |-> [f \in {"status", "size", "left"} |-> UserOrders[o][f]]]
<1>1. ChainSound(blocks, mined)
  BY DEF IndexSound
<1>2. PICK rows : rows = tables.order
  OBVIOUS
<1>3. Placed(rows) /\ \A o \in Orders : Row(rows, o, Unplaced) = OrderOf(Now, o)
  BY <1>2, LevelIndex, OrdersAre DEF Tells
<1>4. ASSUME NEW o \in Orders PROVE o \in DOMAIN rows <=> UserOrders[o] # NoOrder
  <2>1. UserOrders[o] = NoOrder <=> Now.orders[o] = "none"
    BY <1>1, OrdersShown
  <2>2. o \in DOMAIN rows => Now.orders[o] # "none"
    <3> SUFFICES ASSUME o \in DOMAIN rows PROVE Now.orders[o] # "none"
      OBVIOUS
    <3>1. rows[o] = OrderOf(Now, o) /\ rows[o].status # "none"
      BY <1>3 DEF Row, Placed
    <3> QED BY <3>1 DEF OrderOf, StoredRow
  <2>3. o \notin DOMAIN rows => Now.orders[o] = "none"
    <3> SUFFICES ASSUME o \notin DOMAIN rows PROVE Now.orders[o] = "none"
      OBVIOUS
    <3>1. Unplaced = OrderOf(Now, o)
      BY <1>3 DEF Row
    <3> QED BY <3>1 DEF OrderOf, StoredRow, Unplaced
  <2> QED BY <2>1, <2>2, <2>3
<1>5. PICK orders : orders = {o \in Orders : UserOrders[o] # NoOrder}
  OBVIOUS
<1>6. DOMAIN rows = orders
  BY <1>3, <1>4, <1>5 DEF Placed
<1>7. ASSUME NEW o \in orders
      PROVE  OrderRow(rows[o]) = [f \in {"status", "size", "left"} |-> UserOrders[o][f]]
  <2>0. o \in Orders
    BY <1>5
  <2>1. rows[o] = OrderOf(Now, o)
    BY <1>3, <1>6, <2>0 DEF Row
  <2>2. OrderRow(rows[o]) = [status |-> StatusNames[Now.orders[o]], size |-> Now.size[o], left |-> Now.left[o]]
    BY <2>1 DEF OrderRow, OrderOf, StoredRow
  <2>3. PICK r : r = UserOrders[o]
    OBVIOUS
  <2>4. r.status = StatusNames[Now.orders[o]] /\ r.size = Now.size[o] /\ r.left = Now.left[o]
    BY <1>1, <2>0, <2>3, OrdersShown
  <2>5. [status |-> r.status, size |-> r.size, left |-> r.left] = [f \in {"status", "size", "left"} |-> r[f]]
    OBVIOUS
  <2> QED BY <2>2, <2>3, <2>4, <2>5
<1>8. KuruOrdersRoute = [o \in DOMAIN rows |-> OrderRow(rows[o])]
  BY <1>2 DEF KuruOrdersRoute
<1>9. KuruOrdersRoute = [o \in orders |-> [f \in {"status", "size", "left"} |-> UserOrders[o][f]]]
  BY <1>6, <1>7, <1>8
<1> QED
  BY <1>5, <1>9

-----------------------------------------------------------------------------
(* The two sources *)

LEMMA ReadsSound ==
  ASSUME ChainSound(blocks, mined)
  PROVE  ReadsMatchChain
<1>1. ASSUME NEW o \in Orders
      PROVE  /\ UserOrders[o].status = [none |-> "none", OPEN |-> "open", PARTIAL |-> "partial", FILLED |-> "filled",
                                        CANCELLED |-> "cancelled"][Now.orders[o]]
             /\ UserOrders[o].left = Now.left[o]
  BY OrdersShown DEF StatusNames
<1>2. AccountsRead = Now.opened /\ RunningAuctions = {a \in Accounts : Now.auction[a].active}
  BY ListsRead
<1>3. ASSUME NEW s \in Series, Live PROVE Backing(s).written >= Backing(s).inWallets
  BY <1>3, WrittenCovers
<1> QED
  BY <1>1, <1>2, <1>3 DEF ReadsMatchChain

LEMMA SourcesSound ==
  ASSUME IndexSound
  PROVE  SourcesAgree
<1> SUFFICES ASSUME seen = Ids
             PROVE  /\ AccountsRoute = AccountsRead /\ SeriesRoute = Now.listed
                    /\ \A s \in Series : Holding(s, TRUE) = Holding(s, FALSE) /\ BackingWithIndexer(s, TRUE) = Backing(s)
                    /\ ParticipantIds = {a \in Accounts : InGroup(Now, a)} /\ PositionsRoute = ParticipantIds
                    /\ ActiveAuctions = RunningAuctions
                    /\ LET orders == {o \in Orders : UserOrders[o] # NoOrder} IN
                         KuruOrdersRoute = [o \in orders |-> [f \in {"status", "size", "left"} |-> UserOrders[o][f]]]
                    /\ HistoryRoute = UNION {Scan(ev) : ev \in Told}
                    /\ MarketsRoute = Now.market /\ LatestSurface = Now.seq /\ SystemRoute.progress = Tip
  BY DEF SourcesAgree
<1>1. ChainSound(blocks, mined)
  BY DEF IndexSound
<1>2. AccountsRead = Now.opened /\ RunningAuctions = {a \in Accounts : Now.auction[a].active}
      /\ \A s \in Series : HoldersRead(s) = {a \in Accounts : Now.bal[a][s] # 0}
  BY <1>1, ListsRead
<1>3. AccountsRoute = AccountsRead /\ SeriesRoute = Now.listed /\ ActiveAuctions = RunningAuctions
      /\ MarketsRoute = Now.market /\ LatestSurface = Now.seq /\ SystemRoute.progress = Tip
  BY <1>2, LevelRows
<1>4. ParticipantIds = {a \in Accounts : InGroup(Now, a)} /\ PositionsRoute = ParticipantIds
  BY LevelPositions
<1>5. ASSUME NEW s \in Series PROVE Holding(s, TRUE) = Holding(s, FALSE) /\ BackingWithIndexer(s, TRUE) = Backing(s)
  <2>1. SeriesPositions(s) = HoldersRead(s)
    BY <1>2, LevelPositions
  <2>2. BackingWithIndexer(s, TRUE) = Backing(s)
    BY LevelBacking
  <2> QED BY <2>1, <2>2 DEF Holding
<1>6. HistoryRoute = UNION {Scan(ev) : ev \in Told}
  BY LevelHistory
<1>7. KuruOrdersRoute = [o \in {o \in Orders : UserOrders[o] # NoOrder} |->
                          [f \in {"status", "size", "left"} |-> UserOrders[o][f]]]
  BY LevelOrders
<1> QED
  BY <1>3, <1>4, <1>5, <1>6, <1>7

\* THEOREM.  For every chain and every size of the chunks, what the app rebuilds
\* from the logs is what the contracts hold: the status of every order and what is
\* left of it, the accounts, the auctions that run; and until the group is settled
\* the options written cover those in the wallets.
THEOREM AppReadsStayExact == MonitorSpec => []ReadsMatchChain
<1>1. MonitorSpec => []MonInv
  BY MonitorInitSound, MonitorNextKeeps, PTL DEF MonitorSpec
<1>2. MonInv => ReadsMatchChain
  BY ReadsSound DEF MonInv, IndexSound
<1> QED
  BY <1>1, <1>2, PTL

\* THEOREM.  Whenever the index has read the whole chain, whatever was dropped or
\* delivered again before, its routes tell what the app's own scans tell: accounts,
\* series, positions, writers, auctions, orders, history, the market and the surface.
THEOREM SourcesStayAgreed == MonitorSpec => []SourcesAgree
<1>1. MonitorSpec => []MonInv
  BY MonitorInitSound, MonitorNextKeeps, PTL DEF MonitorSpec
<1>2. MonInv => SourcesAgree
  BY SourcesSound DEF MonInv
<1> QED
  BY <1>1, <1>2, PTL

=============================================================================
