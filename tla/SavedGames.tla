----------------------------- MODULE SavedGames -----------------------------
(***************************************************************************)
(* The record of the games played: trigger_save takes a snapshot at the    *)
(* start of a hand, at each new round and at its end, and spawns a thread  *)
(* that writes it in several statements.  Nothing orders these threads     *)
(* among each other, or with those that insert and delete the players'     *)
(* rows (module SavedWallets), to which the record refers.                 *)
(*                                                                         *)
(* The table is that of TableOps reduced to who sits at it, who is in the  *)
(* hand's ring, who has not folded, the head, the game id and the round.   *)
(***************************************************************************)
EXTENDS Integers, FiniteSets, Bags, BagsExt

CONSTANTS
  Ids,         \* player ids
  None,
  FinalRound,  \* the round in which round_action ends the hand
  MaxGames,    \* bounds: hands dealt
  MaxThreads   \* and threads under way

ASSUME GamesAssumption == MaxGames \in Nat /\ None \notin Ids

VARIABLES
  table,    \* the table
  threads,  \* bag: the threads of trigger_save
  rows,     \* the players who have a row in table players
  db,       \* tables games, game_states and game_players
  faulty,   \* whether statements may fail, and players' rows come and go
  won,      \* history: the winner of each game
  sat       \* history: the players in the snapshots of each game

vars == <<table, threads, rows, db, faulty, won, sat>>

Games == 1..MaxGames

Rounds == 0..FinalRound

NewTable == [seated |-> {}, ring |-> {}, live |-> {}, head |-> None, game |-> 0, round |-> 0]

NoWinners == [g \in Games |-> None]

NoPlayers == [g \in Games |-> {}]

NewRecord ==
  [games |-> {}, winner |-> NoWinners, links |-> {},
   states |-> [g \in Games |-> [r \in Rounds |-> None]]]

Init ==
  /\ table = NewTable /\ threads = EmptyBag
  /\ faulty \in BOOLEAN /\ rows = IF faulty THEN {} ELSE Ids
  /\ db = NewRecord /\ won = NoWinners /\ sat = NoPlayers

-----------------------------------------------------------------------------
(***************************************************************************)
(* The table                                                               *)
(***************************************************************************)

\* snapshot_state: a copy of the game id, the round and the players and, at the
\* end of a hand, of the head as the winner.
Snapshot(t, event) ==
  [step |-> "game", event |-> event, game |-> t.game, round |-> t.round,
   players |-> t.seated, winner |-> IF event = "end" THEN t.head ELSE None]

\* trigger_save for table t, which goes on as later.
Save(t, event, later) ==
  /\ BagCardinality(threads) < MaxThreads
  /\ table' = later
  /\ threads' = BagAdd(threads, Snapshot(t, event))
  /\ sat' = [sat EXCEPT ![t.game] = @ \cup t.seated]
  /\ UNCHANGED <<rows, db, faulty>>

Quietly(later) == table' = later /\ UNCHANGED <<threads, rows, db, faulty, won, sat>>

Join(p) ==
  /\ p \notin table.seated
  /\ Quietly([table EXCEPT !.seated = @ \cup {p}, !.live = @ \cup {p},
                          !.head = IF @ = None THEN p ELSE @])

Start ==
  LET dealt == [table EXCEPT !.ring = table.seated, !.live = table.seated,
                             !.game = @ + 1, !.round = 0]
  IN /\ table.ring = {} /\ Cardinality(table.seated) >= 2 /\ table.game < MaxGames
     /\ Save(dealt, "start", dealt) /\ UNCHANGED won

EndGameSavedFirst(t, winner, later) ==
  /\ Save(t, "end", [later EXCEPT !.ring = {}, !.live = {}])
  /\ won' = [won EXCEPT ![t.game] = winner]

\* end_game makes the winner the head, and then saves; later is the table after
\* the call that ended the game.
EndGame(t, winner, later) ==
  /\ Save([t EXCEPT !.head = winner], "end", [later EXCEPT !.ring = {}, !.live = {}])
  /\ won' = [won EXCEPT ![t.game] = winner]

\* round_action and advance_turn: the next round, or the end.  Who joined
\* during the hand may win it.
Advance ==
  LET t == [table EXCEPT !.round = @ + 1] IN
  /\ table.ring # {}
  /\ IF t.round < FinalRound THEN Save(t, "advance", t) /\ UNCHANGED won
     ELSE \E winner \in t.live : EndGame(t, winner, [t EXCEPT !.head = winner])

Heirs(p) == IF table.seated = {p} THEN {None} ELSE table.seated \ {p}

\* fold and remove_player: p is out of the hand, which ends if one player is
\* left in it; the head moves to a neighbour.
Out(p, remaining) ==
  LET t == [table EXCEPT !.ring = @ \ {p}, !.live = @ \ {p}] IN
  \E heir \in Heirs(p) :
    LET headed(head) == IF head = p THEN heir ELSE head
    IN IF p \in table.ring /\ Cardinality(t.ring) = 1
       THEN \E winner \in t.live :
              EndGame([t EXCEPT !.head = headed(@)], winner,
                      [t EXCEPT !.head = winner, !.seated = remaining])
       ELSE Quietly([t EXCEPT !.head = headed(@), !.seated = remaining])

FoldHand(p) == p \in table.ring /\ Out(p, table.seated)

Leave(p) == p \in table.seated /\ Out(p, table.seated \ {p})

(***************************************************************************)
(* The statements of save_game_state                                       *)
(***************************************************************************)

Continue(th, next) == threads' = BagAdd(BagRemove(threads, th), next)

Finish(th) == threads' = BagRemove(threads, th)

\* INSERT INTO games ... ON CONFLICT DO NOTHING
SaveGame(th) ==
  /\ th.step = "game"
  /\ Continue(th, [th EXCEPT !.step = "state"])
  /\ db' = [db EXCEPT !.games = @ \cup {th.game}]

SaveStateOver(th) ==
  /\ th.step = "state"
  /\ Continue(th, [th EXCEPT !.step = "links"])
  /\ db' = [db EXCEPT !.states[th.game][th.round] = th.event]

\* INSERT INTO game_states ... ON CONFLICT DO NOTHING: only the first snapshot
\* of a round is kept, and only with it come the links to the players.
SaveState(th) ==
  LET new == th.game \in db.games /\ db.states[th.game][th.round] = None
  IN /\ th.step = "state"
     /\ Continue(th, [th EXCEPT !.step = IF new THEN "links" ELSE "winner"])
     /\ db' = IF new THEN [db EXCEPT !.states[th.game][th.round] = th.event] ELSE db

\* One INSERT INTO game_players after the other, each refused for a player
\* without a row.
SaveLink(th) ==
  /\ th.step = "links"
  /\ \/ /\ th.players = {} /\ UNCHANGED db
        /\ Continue(th, [th EXCEPT !.step = "winner"])
     \/ \E p \in th.players :
          /\ Continue(th, [th EXCEPT !.players = @ \ {p}])
          /\ db' = IF p \in rows THEN [db EXCEPT !.links = @ \cup {<<th.game, p>>}] ELSE db

\* UPDATE games SET winner, after an 'end' only, refused for a winner without a
\* row.
SaveWinner(th) ==
  /\ th.step = "winner" /\ Finish(th)
  /\ db' = IF th.winner \in rows /\ th.game \in db.games
           THEN [db EXCEPT !.winner[th.game] = th.winner] ELSE db

\* No connection, and the whole snapshot is lost; or a statement that fails,
\* and the next one follows.
Fail(th) ==
  /\ faulty /\ UNCHANGED db
  /\ \/ th.step \in {"game", "winner"} /\ Finish(th)
     \/ th.step = "game" /\ Continue(th, [th EXCEPT !.step = "state"])
     \/ th.step = "state" /\ Continue(th, [th EXCEPT !.step = "winner"])
     \/ th.step = "links" /\ \E p \in th.players :
          Continue(th, [th EXCEPT !.players = @ \ {p}])

Run ==
  \E th \in BagToSet(threads) :
    /\ SaveGame(th) \/ SaveState(th) \/ SaveLink(th) \/ SaveWinner(th) \/ Fail(th)
    /\ UNCHANGED <<table, rows, faulty, won, sat>>

(***************************************************************************)
(* The players' rows                                                       *)
(***************************************************************************)

\* upsert_player, from a join or a thread, at any time.
RowComes(p) ==
  /\ faulty /\ rows' = rows \cup {p}
  /\ UNCHANGED <<table, threads, db, faulty, won, sat>>

\* The two statements of delete_player, of which the second may not follow; it
\* cascades to links inserted since, and to the games that the player won.
LinksGo(p) ==
  /\ faulty /\ db' = [db EXCEPT !.links = {l \in @ : l[2] # p}]
  /\ UNCHANGED <<table, threads, rows, faulty, won, sat>>

RowGoes(p) ==
  /\ faulty /\ rows' = rows \ {p}
  /\ db' = [db EXCEPT !.links = {l \in @ : l[2] # p},
                      !.winner = [g \in Games |-> IF @[g] = p THEN None ELSE @[g]]]
  /\ UNCHANGED <<table, threads, faulty, won, sat>>

\* The server stops and is started again.
Stop ==
  /\ faulty /\ table' = [NewTable EXCEPT !.game = table.game] /\ threads' = EmptyBag
  /\ UNCHANGED <<rows, db, faulty, won, sat>>

Next ==
  \/ Start \/ Advance \/ Run \/ Stop
  \/ \E p \in Ids :
       \/ Join(p) \/ FoldHand(p) \/ Leave(p)
       \/ RowComes(p) \/ LinksGo(p) \/ RowGoes(p)

Spec == Init /\ [][Next]_vars

-----------------------------------------------------------------------------

RoundKept ==
  \A g \in Games, r \in Rounds :
    db.states[g][r] # None => db.states'[g][r] = db.states[g][r]

\* What was saved of a round stays: 'end' and the start or advance of the same
\* round are written by threads in any order (db.rs:190).
RoundsKept == [][RoundKept]_vars

\* The winner on record is the winner of that game, although the thread that
\* writes it may run when the next hand is under way or the winner has left
\* (lib.rs:523 precedes lib.rs:534, and the snapshot is a copy).  If nothing
\* fails, every game that ended has it once the threads have run, also when the
\* round's state was saved before (db.rs:211).
WinnerRecorded ==
  /\ \A g \in Games : db.winner[g] \in {None, won[g]}
  /\ ~faulty /\ threads = EmptyBag => \A g \in Games : db.winner[g] = won[g]

\* A game is linked only to players who were at the table in one of its
\* snapshots, whoever sits there when the thread runs.
LinksSat == \A l \in db.links : l[2] \in sat[l[1]]

\* The record of the games is true of them, and complete where nothing fails.
GamesRecorded == WinnerRecorded /\ LinksSat
=============================================================================
