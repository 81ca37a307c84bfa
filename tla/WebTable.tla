------------------------------ MODULE WebTable ------------------------------
(***************************************************************************)
(* One table of the web server (Server/src/web.rs) with the threads that   *)
(* share it: the requests of run_action and join_table, and the monitor    *)
(* thread of new_web_table.  Each takes the table's mutex several times    *)
(* and decides under one lock what it does under the next, so one action   *)
(* here is one critical section.                                           *)
(*                                                                         *)
(*   - a request to bet passes the turn check, then game_actions, then the *)
(*     bet itself, then advance_turn: "gate" (where it arrives), "game",   *)
(*     "act", "advance".  LEAVE, KEEP_PLAYING and the seating of a joiner  *)
(*     are one critical section each, and UPDATE changes nothing;          *)
(*   - the monitor loops through "expire", "count", "showdown", "purge"    *)
(*     (after its ten seconds' sleep) and "start".                         *)
(***************************************************************************)
EXTENDS TableOps

CONSTANTS
  Threads,    \* the requests the server may be working on at the same time
  JoinChips,  \* as in Table
  Amounts,
  MaxChips,
  MaxArrivals \* bound: how often a player joins, in all

ASSUME WebAssumption ==
  /\ JoinChips \subseteq Nat
  /\ Amounts \subseteq Nat
  /\ MaxChips \in Nat /\ MaxChips < WordSize

VARIABLES
  table,      \* the Table behind the Arc<Mutex<_>>
  req,        \* each request thread: where it is, for whom, with what command
  monitor,    \* where the monitor thread is
  arrivals    \* the joins so far

vars == <<table, req, monitor, arrivals>>

Commands ==
  {[verb |-> v, amount |-> 0] : v \in {"ALL_IN", "CHECK", "FOLD", "REPLACE_CARDS"}}
    \cup [verb : {"RAISE"}, amount : Amounts]

Idle == [at |-> "gate", player |-> None, command |-> None]

\* What a request thread remembers from one lock to the next.
Requests ==
  [at : {"gate", "game", "act", "advance"}, player : Pointer, command : Commands \cup {None}]

-----------------------------------------------------------------------------

Init ==
  /\ table = NewTable
  /\ req = [r \in Threads |-> Idle]
  /\ monitor = "expire"
  /\ arrivals = 0

\* lock().unwrap() panics, or waits for ever, once the mutex is poisoned or held.
Available == table.health = "ok"

Quiet == UNCHANGED <<monitor, arrivals>>

\* join_table: the wallet comes from the database or from the request.
Join(r, p) ==
  \E chips \in JoinChips :
    /\ Available /\ req[r] = Idle /\ arrivals < MaxArrivals
    /\ p \notin table.players /\ Chips(table) + chips <= MaxChips
    /\ table' = AddPlayer(table, p, chips)
    /\ arrivals' = arrivals + 1
    /\ UNCHANGED <<req, monitor>>

Leave(r, p) ==
  \E rank \in Ranks[Contenders(table)], order \in Orders[table.players \ {p}] :
    /\ Available /\ req[r] = Idle /\ p \in table.players
    /\ table' = Remove(table, p, order, rank)
    /\ UNCHANGED req /\ Quiet

Confirm(r, p) ==
  /\ Available /\ req[r] = Idle /\ table.showdown # None
  /\ table' = KeepPlaying(table, p)
  /\ UNCHANGED req /\ Quiet

GateOpen(r, command) ==
  \E p \in table.players :
    /\ Available /\ req[r] = Idle
    /\ req' = [req EXCEPT ![r] = [at |-> "game", player |-> p, command |-> command]]
    /\ UNCHANGED table /\ Quiet

\* The turn check.  A request that is not the turn's player's is an error.
Gate(r, command) ==
  /\ Available /\ req[r] = Idle /\ IsRunning(table)
  /\ req' = [req EXCEPT ![r] = [at |-> "game", player |-> table.turn,
                                command |-> command]]
  /\ UNCHANGED table /\ Quiet

\* game_actions, which is advance_turn too if it took a draw's discards.
GameAction(r) ==
  LET p == req[r].player
  IN /\ Available /\ req[r].at = "game"
     /\ \/ /\ p \in table.players /\ ~IsDrawRound(table)
           /\ req[r].command.verb # "REPLACE_CARDS"
           /\ req' = [req EXCEPT ![r].at = "act"] /\ UNCHANGED table
        \/ /\ p \notin table.players \/ IsDrawRound(table)
              \/ req[r].command.verb = "REPLACE_CARDS"
           /\ req' = [req EXCEPT ![r] = Idle] /\ UNCHANGED table
        \/ /\ p \in table.players /\ IsDrawRound(table)
           /\ req[r].command.verb = "REPLACE_CARDS"
           /\ req' = [req EXCEPT ![r] = Idle]
           /\ \E rank \in Ranks[Contenders(table)] : table' = AdvanceTurn(table, rank)
     /\ Quiet

\* An answer that is Ok goes on to advance_turn, an Err ends the request.
Answer(r, isOk) ==
  req' = [req EXCEPT ![r] = IF isOk THEN [Idle EXCEPT !.at = "advance"] ELSE Idle]

Act(r) ==
  LET p == req[r].player
      verb == req[r].command.verb
      amount == req[r].command.amount
  IN /\ Available /\ req[r].at = "act"
     /\ \/ /\ verb = "RAISE"
           /\ table' = Raise(table, p, amount) /\ Answer(r, RaiseOk(table, p, amount))
        \/ /\ verb = "ALL_IN"
           /\ table' = AllIn(table, p) /\ Answer(r, AllInOk(table, p))
        \/ /\ verb = "CHECK"
           /\ table' = Check(table, p) /\ Answer(r, CheckOk(table, p))
        \/ /\ verb = "FOLD"
           /\ \E rank \in Ranks[Contenders(table)] : table' = Fold(table, p, rank)
           /\ Answer(r, p \in table.players)
     /\ Quiet

Advance(r) ==
  \E rank \in Ranks[Contenders(table)] :
    /\ Available /\ req[r].at = "advance"
    /\ table' = AdvanceTurn(table, rank)
    /\ req' = [req EXCEPT ![r] = Idle] /\ Quiet

-----------------------------------------------------------------------------

Transition(from, to) ==
  Available /\ monitor = from /\ monitor' = to /\ UNCHANGED <<req, arrivals>>

EnoughToStart == Cardinality(table.players) >= 2 /\ ~IsRunning(table)

MonitorExpire ==
  /\ Transition("expire", "count")
  /\ \/ /\ table.showdown = None /\ table.clock = "expired"
        /\ \E rank \in Ranks[Contenders(table)], order \in Orders[table.players \ {table.turn}] :
             table' = ExpireTurn(table, order, rank)
     \/ /\ table.showdown # None \/ table.clock # "expired"
        /\ UNCHANGED table

MonitorCount ==
  /\ Transition("count", IF EnoughToStart THEN "showdown" ELSE "expire")
  /\ UNCHANGED table

MonitorShowdownWaits ==
  /\ Transition("showdown", IF table.showdown # None THEN "expire" ELSE "start")
  /\ UNCHANGED table

MonitorShowdown ==
  /\ Transition("showdown", IF table.showdown # None THEN "purge" ELSE "start")
  /\ UNCHANGED table

MonitorPurge ==
  \E order \in Orders[table.confirmed \cap table.players] :
    /\ Transition("purge", "start")
    /\ table' = RemoveUnconfirmed(table, order)

MonitorStartUnchecked ==
  \E order \in Orders[table.players] :
    Transition("start", "expire") /\ table' = StartGame(table, order)

MonitorStart ==
  /\ Transition("start", "expire")
  /\ \/ \E order \in Orders[table.players] :
          EnoughToStart /\ table' = StartGame(table, order)
     \/ ~EnoughToStart /\ UNCHANGED table

Monitor ==
  MonitorExpire \/ MonitorCount \/ MonitorShowdown \/ MonitorPurge \/ MonitorStart

\* The turn's player lets TURN_TIMEOUT pass.
Tick ==
  /\ Available /\ table.clock = "fresh"
  /\ table' = [table EXCEPT !.clock = "expired"]
  /\ UNCHANGED <<req, monitor, arrivals>>

Request(r) ==
  \/ \E p \in Ids : Join(r, p) \/ Leave(r, p) \/ Confirm(r, p)
  \/ \E command \in Commands : Gate(r, command)
  \/ GameAction(r) \/ Act(r) \/ Advance(r)

Next == Monitor \/ Tick \/ \E r \in Threads : Request(r)

Spec == Init /\ [][Next]_vars

\* Every step of the monitor thread, and no other, moves it to another place
\* in its loop, and it always has a next step while the mutex can be taken.
MonitorMoves ==
  Available /\ monitor' \in {"expire", "count", "showdown", "purge", "start"} \ {monitor}

\* The monitor thread runs for ever and time passes.  Nothing makes a player act.
FairSpec == Spec /\ WF_monitor(MonitorMoves) /\ WF_vars(Tick)

-----------------------------------------------------------------------------

\* However the sections of requests and monitor interleave, the table goes
\* through the calls of module Table.
T == INSTANCE Table

ImplementsTable == T!Spec

\* With one request at a time: chips come and go with the players only, whether
\* a hand ends by a showdown, a fold, a leave or a timeout.
ChipsConserved ==
  [][Chips(table') = Chips(table)
       + Wallets(table', table'.players \ table.players)
       - Wallets(table, table.players \ table'.players)]_table

\* With one request at a time: the bettor, who ends a betting round when the
\* turn is back, is on the ring the turn moves on.
BettorInHand == IsRunning(table) => table.bettor \in Ring(table)

\* With one request at a time: between hands nobody has a bet on the table.
RestIsClean ==
  ~IsRunning(table) => Bets(table) = 0 /\ table.pot = 0 /\ table.bettor = None

\* With one request at a time: the player whose bet is about to be taken has
\* the turn, or the monitor has removed them since the turn check.
ActsInTurn ==
  \A r \in Threads : req[r].at = "act" /\ req[r].player \in table.players =>
    table.turn = req[r].player

\* Nobody keeps the turn for ever: who does not act is timed out.
TurnMoves == \A p \in Ids : table.turn = p ~> table.turn # p

\* Two seated players get a hand, or the purge leaves fewer than two.
HandStarts ==
  Cardinality(table.players) >= 2 ~> IsRunning(table) \/ Cardinality(table.players) < 2

\* A check is what a test calls it, "checks (matches the current bet)"
\* (Server/tests/table_unit.rs:320): the player who has the turn and could pay
\* the difference comes out of it with the table's bet.  The code breaks this:
\* a raise need not reach the current bet, so it can lower it, and then the
\* player who had bet more cannot check.
CheckMatchesBet ==
  [][\A r \in Threads :
       LET p == req[r].player
       IN /\ req[r].at = "act" /\ req'[r] # req[r] /\ req[r].command.verb = "CHECK"
          /\ table.turn = p /\ table.bet - table.pbet[p] <= table.wallet[p]
          => table'.pbet[p] = table'.bet]_vars
=============================================================================
