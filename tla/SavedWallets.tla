---------------------------- MODULE SavedWallets ----------------------------
(***************************************************************************)
(* Wallets at the tables and in the database.  A table writes nothing      *)
(* itself: it spawns a thread for each upsert and each delete of a player, *)
(* with a copy of what it holds at that moment, and nothing orders those   *)
(* threads.  Joining reads and writes the row before it takes the table's  *)
(* lock.  Statements and connections fail, and the errors are logged and   *)
(* ignored; a stop of the server loses the tables and the threads.         *)
(*                                                                         *)
(* The table is that of TableOps reduced to its wallets.  A bet is one     *)
(* chip or the whole wallet, and an ended hand pays the pot in any way     *)
(* among the players who have not folded.                                  *)
(***************************************************************************)
EXTENDS JoinedWallets, Integers, FiniteSets, FiniteSetsExt, Sequences, SequencesExt

CONSTANTS
  Ids,         \* player ids
  Tables,      \* the games of WebState::tables, which share one database
  NewWallets,  \* JoinRequest::wallet, below Word
  Word,        \* 2^64, even: u64 wallets are below it, i64 columns within half of it
  Orderly,     \* the database keeps up: it is ready before the first request,
               \* threads run in the order in which they are spawned, and a
               \* player joins one table at a time, once their own earlier
               \* threads have run
  MayFail,     \* a connection or statement may fail
  MaxThreads,  \* bounds: threads under way,
  MaxJoining,  \* joins under way at one moment,
  MaxStops     \* and restarts of the server

VARIABLES
  table,    \* the tables, with the wallet of each player who sits there
  threads,  \* those of persist_player and delete_player, as they were spawned
  schema,   \* "missing", or "ready" once init_schema has run
  rows,     \* the wallet column of table players, for those who have a row
  stops,
  brought   \* history: the chips of all wallets that did not come from a row

vars == <<table, joining, threads, schema, rows, stops, held, brought>>

Put(f, x, value) == [y \in DOMAIN f \cup {x} |-> IF y = x THEN value ELSE f[y]]

Cut(f, gone) == Restrict(f, DOMAIN f \ gone)

NewTable == [wallet |-> <<>>, ring |-> {}, live |-> {}, pot |-> 0]

Seated(t) == DOMAIN t.wallet

Joining == UNION {{k} \X DOMAIN joining[k] : k \in Tables}

\* The wallets at a table, and those of the players who are joining one.
Wallets(t) == [p \in Ids |-> IF p \in Seated(t) THEN t.wallet[p] ELSE 0]

Coming(arriving) == [p \in Ids |-> IF p \in DOMAIN arriving THEN arriving[p].wallet ELSE 0]

Chips(k) ==
  table[k].pot + SumFunctionOnSet(Wallets(table[k]), Ids)
               + SumFunctionOnSet(Coming(joining[k]), Ids)

Pending(p) == \E i \in DOMAIN threads : threads[i].id = p

\* The i64 of the column, and back: u64 as i64, i64 as u64.
Stored(wallet) == IF wallet < Word \div 2 THEN wallet ELSE wallet - Word

FetchedClamped(column) == IF column < 0 THEN 0 ELSE column

Fetched(column) == column % Word

-----------------------------------------------------------------------------

Init ==
  /\ table = [k \in Tables |-> NewTable]
  /\ joining = [k \in Tables |-> <<>>]
  /\ threads = <<>> /\ schema = IF Orderly THEN "ready" ELSE "missing"
  /\ rows = <<>> /\ stops = 0
  /\ held = [p \in Ids |-> {}] /\ brought = 0

(***************************************************************************)
(* The table, and the threads that its methods spawn                       *)
(***************************************************************************)

Upsert(p, wallet) == [op |-> "upsert", id |-> p, wallet |-> wallet]

Delete(p) == [op |-> "delete", id |-> p]

\* A call that takes table k to t and spawns new threads.
Becomes(k, t, new) ==
  /\ Len(threads \o new) <= MaxThreads
  /\ table' = [table EXCEPT ![k] = t]
  /\ threads' = threads \o new
  /\ held' = [p \in Ids |-> IF p \in Seated(t) THEN held[p] \cup {t.wallet[p]} ELSE held[p]]
  /\ UNCHANGED <<joining, schema, rows, stops, brought>>

PaidBy(t, p, chips) == [t EXCEPT !.wallet[p] = @ - chips, !.pot = @ + chips]

BetThreadsNone(p, wallet) == <<>>

BetThreads(p, wallet) == <<Upsert(p, wallet)>>

\* raise, all_in and check.
Bet(k, p) ==
  /\ p \in table[k].ring
  /\ \E chips \in {1, table[k].wallet[p]} :
       LET later == PaidBy(table[k], p, chips)
       IN chips \in 1..table[k].wallet[p] /\ Becomes(k, later, BetThreads(p, later.wallet[p]))

\* start_game, in which the blind's 50 is a raise like any other.
Start(k) ==
  LET dealt == [table[k] EXCEPT !.ring = Seated(table[k]), !.live = @ \cup Seated(table[k]),
                                !.pot = 0]
  IN /\ table[k].ring = {} /\ Cardinality(Seated(dealt)) >= 2
     /\ \E blind \in Seated(dealt) :
          IF dealt.wallet[blind] = 0
          THEN Becomes(k, dealt, <<>>)
          ELSE LET paid == PaidBy(dealt, blind, 1)
               IN Becomes(k, paid, BetThreads(blind, paid.wallet[blind]))

\* What pay_showdown_pots may pay to those who have not folded.
Payouts(t) ==
  {paid \in [t.live -> 0..t.pot] : SumFunctionOnSet(paid, t.live) = t.pot}

AfterHand(t, paid) ==
  [t EXCEPT !.wallet = [p \in DOMAIN @ |-> IF p \in t.live THEN @[p] + paid[p] ELSE @[p]],
            !.ring = {}, !.live = {}, !.pot = 0]

\* end_game persists everybody at the table, in the order of the map.
EndThreads(t, paid, order) ==
  [i \in DOMAIN order |-> Upsert(order[i], AfterHand(t, paid).wallet[order[i]])]

Without(t, gone) == [t EXCEPT !.wallet = Cut(@, gone)]

\* end_game for table t, followed by the threads of after and the end of those gone.
EndGame(k, t, after, gone) ==
  \E paid \in Payouts(t), order \in SetToSeqs(Seated(t)) :
    Becomes(k, Without(AfterHand(t, paid), gone), EndThreads(t, paid, order) \o after)

\* round_action, in the last round.
LastRound(k) == table[k].ring # {} /\ EndGame(k, table[k], <<>>, {})

\* fold persists the copy of the player that it took before end_game.
FoldThen(k, p, after, gone) ==
  LET t     == table[k]
      later == [t EXCEPT !.ring = @ \ {p}, !.live = @ \ {p}]
      mine  == <<Upsert(p, t.wallet[p])>> \o after
  IN IF p \in t.ring /\ Cardinality(later.ring) = 1
     THEN EndGame(k, later, mine, gone)
     ELSE Becomes(k, Without(later, gone), mine)

FoldHand(k, p) == p \in table[k].ring /\ FoldThen(k, p, <<>>, {})

\* remove_player for LEAVE, a turn that timed out, or a player who did not
\* confirm: fold, unlink, and a thread that deletes the row.
Leave(k, p) ==
  /\ p \in Seated(table[k])
  /\ FoldThen(k, p, <<Delete(p)>>, {p})

(***************************************************************************)
(* join_table                                                              *)
(***************************************************************************)

Brings(k, p, wallet) ==
  /\ Chips(k) + wallet < Word
  /\ joining' = [joining EXCEPT ![k] = Put(@, p, [step |-> "upsert", wallet |-> wallet])]

\* fetch_player, whose errors look like a player who is not there.  A wallet is
\* brought only if the sums of wallets stay below Word.
Fetch(k, p) ==
  LET found == p \in DOMAIN rows /\ schema = "ready" IN
  /\ p \notin DOMAIN joining[k] /\ Cardinality(Joining) < MaxJoining
  /\ Orderly => /\ ~Pending(p)
                /\ \A j \in Tables : p \notin Seated(table[j]) \cup DOMAIN joining[j]
  /\ \/ found /\ Brings(k, p, Fetched(rows[p])) /\ UNCHANGED <<brought, held>>
     \/ \E wallet \in NewWallets :
          /\ ~found \/ MayFail
          /\ brought + wallet < Word /\ Brings(k, p, wallet)
          /\ brought' = brought + wallet
          /\ held' = [held EXCEPT ![p] = @ \cup {wallet}]
  /\ UNCHANGED <<table, threads, schema, rows, stops>>

\* Whether or not the upsert fails, joining goes on.
JoinUpsert(k, p) ==
  /\ p \in DOMAIN joining[k] /\ joining[k][p].step = "upsert"
  /\ joining' = [joining EXCEPT ![k][p].step = "add"]
  /\ \/ schema = "ready" /\ rows' = Put(rows, p, Stored(joining[k][p].wallet))
     \/ (schema = "missing" \/ MayFail) /\ UNCHANGED rows
  /\ UNCHANGED <<table, threads, schema, stops, held, brought>>

\* add_player: a seated player only changes the name.
JoinAdd(k, p) ==
  /\ p \in DOMAIN joining[k] /\ joining[k][p].step = "add"
  /\ joining' = [joining EXCEPT ![k] = Cut(@, {p})]
  /\ table' = IF p \in Seated(table[k]) THEN table
              ELSE [table EXCEPT ![k].wallet = Put(@, p, joining[k][p].wallet),
                                 ![k].live   = @ \cup {p}]
  /\ UNCHANGED <<threads, schema, rows, stops, held, brought>>

(***************************************************************************)
(* The threads, the schema and the server                                  *)
(***************************************************************************)

RunUpsert(th) == th.op = "upsert" /\ rows' = Put(rows, th.id, Stored(th.wallet))

RunDelete(th) == th.op = "delete" /\ rows' = Cut(rows, {th.id})

\* No connection, or a statement that fails.
Fail == (MayFail \/ schema = "missing") /\ UNCHANGED rows

Run ==
  \E i \in DOMAIN threads :
    /\ Orderly => i = 1
    /\ threads' = RemoveAt(threads, i)
    /\ Fail \/ (schema = "ready" /\ (RunUpsert(threads[i]) \/ RunDelete(threads[i])))
    /\ UNCHANGED <<table, joining, schema, stops, held, brought>>

\* main spawns init_schema and does not wait for it.
InitSchema ==
  /\ schema = "missing" /\ schema' = "ready"
  /\ UNCHANGED <<table, joining, threads, rows, stops, held, brought>>

\* The server stops and is started again: the rows are all that remains.
Stop ==
  /\ stops < MaxStops /\ stops' = stops + 1
  /\ table' = [k \in Tables |-> NewTable]
  /\ joining' = [k \in Tables |-> <<>>]
  /\ threads' = <<>>
  /\ UNCHANGED <<schema, rows, held, brought>>

Next ==
  \/ Run \/ InitSchema \/ Stop
  \/ \E k \in Tables : Start(k) \/ LastRound(k)
  \/ \E k \in Tables, p \in Ids :
       \/ Bet(k, p) \/ FoldHand(k, p) \/ Leave(k, p)
       \/ Fetch(k, p) \/ JoinUpsert(k, p) \/ JoinAdd(k, p)

Spec == Init /\ [][Next]_vars

-----------------------------------------------------------------------------

Saved(p) == IF p \in DOMAIN rows THEN Fetched(rows[p]) ELSE 0

\* If the threads do run in order and nothing fails, the rows never hold more
\* chips than were brought, wherever a stop of the server cuts the sequence of
\* writes: each bet is written before the pot that it goes to is paid
\* (lib.rs:231, lib.rs:515).
NoChipsMinted ==
  Orderly /\ ~MayFail => SumFunctionOnSet([p \in Ids |-> Saved(p)], Ids) <= brought

\* And once they have run, the rows agree with the tables: every call that
\* changes a wallet writes it, and nobody's row is deleted but that of a player
\* who left.
Settled ==
  Orderly /\ ~MayFail /\ threads = <<>> =>
    \A k \in Tables : \A p \in Seated(table[k]) :
      p \in DOMAIN rows /\ Fetched(rows[p]) = table[k].wallet[p]
=============================================================================
