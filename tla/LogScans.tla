------------------------------ MODULE LogScans ------------------------------
(***************************************************************************)
(* What the keepers and the publisher follow of the chain by themselves    *)
(* (sdk/src/catalog.ts, ledger.ts, chain.ts): the catalog of series and    *)
(* the balances of the ledger, each scanned from the logs in chunks from a *)
(* position that all callers share.  Several loops of one process call     *)
(* sync() on the same object, and a request refused for its rate is        *)
(* repeated for up to a minute.  The catalog may first be seeded from the  *)
(* indexer, by two requests at once.                                       *)
(***************************************************************************)
EXTENDS Indexer

CONSTANTS
  Callers,   \* the loops of a process that call sync() on one object
  Chunk,
  MaxRetries

ASSUME ScansAssumption == Chunk \in Nat \ {0}

VARIABLES
  next,       \* per follower: the first block not scanned
  catalog,    \* the series known
  balances,   \* [Accounts -> [Series -> the last balance seen]]
  scans,      \* per follower and caller: the sync() in flight, or Idle
  seed,       \* the seeding in flight: what /series and /system answered
  gap,        \* series that the indexer processed between the two answers
  rewound     \* has a late answer set the position of the directory back?

scanVars == <<next, catalog, balances, scans, seed, gap, rewound>>

Followers == {"catalog", "directory"}
Idle == [head |-> 0]
Unread == [done |-> FALSE]

ScansInit ==
  /\ next = [f \in Followers |-> 1]
  /\ catalog = {} /\ gap = {} /\ rewound = FALSE
  /\ balances = [a \in Accounts |-> [s \in Series |-> 0]]
  /\ scans = [f \in Followers |-> [c \in Callers |-> Idle]]
  /\ seed = [rows |-> Unread, progress |-> Unread, over |-> FALSE]

Lesser(x, y) == IF x < y THEN x ELSE y

\* The request for the chunk that starts at `from', or the end of the sync.
NextChunk(from, head) == IF from > head THEN Idle
  ELSE [head |-> head, from |-> from, to |-> Lesser(from + Chunk - 1, head), attempt |-> 0]

\* sync() reads the head once.  The catalog is synced after its seeding.
StartSync(f, c) ==
  /\ scans[f][c] = Idle /\ next[f] <= Tip
  /\ f = "catalog" => seed.over
  /\ scans' = [scans EXCEPT ![f][c] = NextChunk(next[f], Tip)]
  /\ UNCHANGED <<next, catalog, balances, seed, gap, rewound>>

\* The position is set, whoever moved it meanwhile.
Position(f, to) == to + 1

\* The balance a log carries replaces the one known.
Record(m, log) == IF log.ev = "BalanceUpdated"
                  THEN [m EXCEPT ![log.acct][log.series] = log.balance] ELSE m

\* The logs of a chunk arrive: they are applied and the next chunk is asked.
Answer(f, c) == LET sc == scans[f][c] IN
  /\ sc # Idle
  /\ LET logs == LogsIn(sc.from, sc.to) IN
     IF f = "catalog"
     THEN /\ catalog' = catalog \cup {l.series : l \in {l \in Range(logs) : l.ev = "SeriesCreated"}}
          /\ UNCHANGED balances
     ELSE /\ balances' = FoldLeft(Record, balances, logs)
          /\ UNCHANGED catalog
  /\ next' = [next EXCEPT ![f] = Position(f, sc.to)]
  /\ rewound' = (rewound \/ (f = "directory" /\ Position(f, sc.to) < next[f]))
  /\ scans' = [scans EXCEPT ![f][c] = NextChunk(Position(f, sc.to), sc.head)]
  /\ UNCHANGED <<seed, gap>>

\* Refused for the rate: asked again after a while, and given up in the end.
Refused(f, c) == LET sc == scans[f][c] IN
  /\ sc # Idle
  /\ scans' = [scans EXCEPT ![f][c] = IF sc.attempt < MaxRetries
                                      THEN [sc EXCEPT !.attempt = @ + 1] ELSE Idle]
  /\ UNCHANGED <<next, catalog, balances, seed, gap, rewound>>

-----------------------------------------------------------------------------
(* seedFromIndexer: /series and /system are asked at once and answered in  *)
(* any order; without an indexer the scan starts at the deployment.        *)

SeedRows ==
  /\ ~seed.over /\ ~seed.rows.done
  /\ seed' = [seed EXCEPT !.rows = [done |-> TRUE, series |-> DOMAIN tables.series]]
  /\ UNCHANGED <<next, catalog, balances, scans, gap, rewound>>

SeedProgress ==
  /\ ~seed.over /\ ~seed.progress.done
  /\ seed' = [seed EXCEPT !.progress = [done |-> TRUE, block |-> Progress, head |-> Tip]]
  /\ UNCHANGED <<next, catalog, balances, scans, gap, rewound>>

SeedOver == [rows |-> Unread, progress |-> Unread, over |-> TRUE]

Resume(p) == p.block + 1

Seeded ==
  /\ seed.rows.done /\ seed.progress.done
  /\ seed' = SeedOver
  /\ IF seed.progress.block = 0 THEN UNCHANGED <<next, catalog, gap>>
     ELSE /\ catalog' = seed.rows.series
          /\ next' = [next EXCEPT !["catalog"] = IF Resume(seed.progress) > @ THEN Resume(seed.progress) ELSE @]
          /\ gap' = WorldAt(seed.progress.block).listed \ seed.rows.series
  /\ UNCHANGED <<balances, scans, rewound>>

SeedFails ==
  /\ ~seed.over /\ seed' = SeedOver
  /\ UNCHANGED <<next, catalog, balances, scans, gap, rewound>>

Scanning(f) ==
  \/ \E c \in Callers : StartSync(f, c) \/ Answer(f, c) \/ Refused(f, c)
  \/ f = "catalog" /\ (SeedRows \/ SeedProgress \/ Seeded \/ SeedFails)

\* The chain grows while the indexer and the loops follow it; no block is
\* dropped that was scanned.
ScanNext ==
  \/ AnyTransaction /\ UNCHANGED <<indexVars, scanVars>>
  \/ Indexing /\ UNCHANGED scanVars
  \/ (\E f \in Followers : Scanning(f)) /\ UNCHANGED <<chainVars, indexVars>>

ScanSpec == IndexInit /\ ScansInit /\ [][ScanNext]_<<chainVars, indexVars, scanVars>>

-----------------------------------------------------------------------------
\* INVARIANT.  The catalog has every series of the blocks it has passed,
\* however the syncs of several loops overlap; only what the indexer processed
\* between the two answers of a seeding can be missing.
CatalogGap == WorldAt(next["catalog"] - 1).listed \ catalog \subseteq gap

\* "The ledger rebuilt from SubAccounts.BalanceUpdated" (ledger.ts:14): when no
\* sync is in flight and the position is past the head, the balances are the
\* ledger's; unless a sync that two loops overlap had set the position back, over
\* blocks the other one does not read again (ledger.ts:48).
DirectoryExact ==
  ~rewound /\ (\A c \in Callers : scans["directory"][c] = Idle) /\ next["directory"] = Tip + 1
    => balances = Now.bal

=============================================================================
