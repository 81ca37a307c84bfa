----------------------------- MODULE MCDatabase -----------------------------
(***************************************************************************)
(* Instances for TLC of the two halves of the database: the games played   *)
(* (SavedGames), with and without faults, and the wallets (SavedWallets),  *)
(* with threads in order and with races and faults.  A part is chosen at   *)
(* the start; while it is about wallets the record of the games is empty,  *)
(* and the table, the threads and the rows are SavedWallets'.              *)
(***************************************************************************)
EXTENDS SavedGames, JoinedWallets, TLC

CONSTANTS a, b, c, d, e, texasholdem

VARIABLES part, schema, stops, brought

Symmetry == Permutations({a, b, c}) \cup Permutations({d, e})

\* Threads in order, one restart of the server at any moment.
Ordered == INSTANCE SavedWallets
  WITH Ids <- {d, e}, Tables <- {texasholdem}, NewWallets <- {2}, Word <- 6,
       Orderly <- TRUE, MayFail <- FALSE, MaxThreads <- 4, MaxJoining <- 2, MaxStops <- 1

\* Threads in any order, statements that fail, a database not ready yet.
Races == INSTANCE SavedWallets
  WITH Ids <- {d, e}, Tables <- {texasholdem}, NewWallets <- {1}, Word <- 4,
       Orderly <- FALSE, MayFail <- TRUE, MaxThreads <- 2, MaxJoining <- 1, MaxStops <- 0

walletVars == <<joining, schema, stops, held, brought>>

gameVars == <<db, faulty, won, sat>>

NoWallets ==
  joining = <<>> /\ schema = None /\ stops = None /\ held = <<>> /\ brought = None

NoGames == db = NewRecord /\ faulty = TRUE /\ won = NoWinners /\ sat = NoPlayers

MCInit ==
  \/ part = "ordered" /\ Ordered!Init /\ NoGames
  \/ part = "races" /\ Races!Init /\ NoGames
  \/ part = "games" /\ Init /\ NoWallets

\* Bounds: with faults one game of three players, and two threads; without, two
\* games of two players.
FewGames ==
  IF faulty THEN table'.game <= 1 /\ BagCardinality(threads') <= 2
  ELSE Cardinality(table'.seated \cup UNION {sat'[g] : g \in Games}) <= 2

MCNext ==
  /\ \/ part = "ordered" /\ Ordered!Next /\ UNCHANGED gameVars
     \/ part = "races" /\ Races!Next /\ UNCHANGED gameVars
     \/ part = "games" /\ Next /\ FewGames /\ UNCHANGED walletVars
  /\ UNCHANGED part

\* Bound: two chips in the races, which are enough for a wallet beyond the i64.
FewChips == (part = "races") => (brought <= 2)

MCSpec == MCInit /\ [][MCNext]_<<part, walletVars, vars>>

\* SavedWallets: with threads in order, the rows never hold more chips than
\* were brought, wherever a stop of the server cuts the writes, and once the
\* threads have run they agree with the tables.
RowsFollowTables == part = "ordered" => Ordered!NoChipsMinted /\ Ordered!Settled
=============================================================================
