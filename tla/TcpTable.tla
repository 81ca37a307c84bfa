------------------------------ MODULE TcpTable ------------------------------
(***************************************************************************)
(* One table of the TCP server: the handler of each connection             *)
(* (handle_game_client, Server/src/clienthandler.rs) and the monitor of    *)
(* launch_table (Server/src/servermanager.rs), over the same Table as the  *)
(* web server.  One action is one critical section of the table's mutex,   *)
(* or one step outside it.                                                 *)
(*                                                                         *)
(* A handler goes round: "top" (whose turn is it), "read" (for a second),  *)
(* and, with a bet, "gate" (whose turn is it now), "game" (game_actions),  *)
(* "act" (the bet), "advance".  "drop" is handle_player_disconnect, for a  *)
(* LEAVE, a closed connection, a failed write or a failed ping.            *)
(*                                                                         *)
(* Here a seated player has a stream, and what the methods of the table    *)
(* return depends on whether player_send can write to it.  The first write *)
(* after the client closed succeeds and brings a reset back, at some time; *)
(* what is written after that fails, in the same call too: end_game sends  *)
(* every player an [UPDATE] before the fold that led to it sends its own.  *)
(* A client has one connection at a time (module TcpClient), and a         *)
(* player's id is that of the client.                                      *)
(***************************************************************************)
EXTENDS TableOps

CONSTANTS
  JoinChips,  \* as in Table
  Amounts,
  Verbs,      \* what each client sends
  MaxChips,
  MaxArrivals,\* bound: the connections, in all
  Breaks,     \* what each client that goes without LEAVE makes of its connection
  Expires     \* whether a turn may last longer than TURN_TIMEOUT

ASSUME TcpAssumption == JoinChips \subseteq Nat /\ Amounts \subseteq Nat

VARIABLES
  table,
  conn,       \* each client's last connection
  handler,    \* the thread that serves it
  stale,      \* the stream of an earlier connection that the player's node still holds
  monitor,
  arrivals

vars == <<table, conn, handler, stale, monitor, arrivals>>

Commands(p) ==
  {[verb |-> v, amount |-> 0] : v \in Verbs[p] \ {"RAISE"}}
    \cup [verb : Verbs[p] \cap {"RAISE"}, amount : Amounts]

Gone == [at |-> "none", joined |-> FALSE, isTurn |-> FALSE, command |-> None]

Init ==
  /\ table = NewTable
  /\ conn = [p \in Ids |-> "none"] /\ stale = [p \in Ids |-> "none"]
  /\ handler = [p \in Ids |-> Gone]
  /\ monitor = "expire" /\ arrivals = 0

Available == table.health = "ok"

\* The stream that player_send writes to.
Line(p) == IF stale[p] # "none" THEN stale[p] ELSE conn[p]

\* The reset that a write to a closed connection brings back has come, or has not yet.
AfterWrites(streams, written) ==
  {[q \in Ids |-> IF q \in reset THEN "reset" ELSE streams[q]] :
     reset \in SUBSET {q \in written : streams[q] = "closed"}}

\* The handlers of the players in own wrote, and player_send wrote to those in sent.
\* A stream lives as long as the handler or the player's node has it.
Writes(own, sent) ==
  \E now \in AfterWrites(conn, own \cup {q \in sent : stale[q] = "none"}),
     old \in AfterWrites(stale, sent) :
    /\ stale' = [q \in Ids |-> IF q \in table'.players THEN old[q] ELSE "none"]
    /\ conn' = [q \in Ids |->
                 IF handler'[q].at = "none" /\ (q \notin table'.players \/ old[q] # "none")
                 THEN "none" ELSE now[q]]

\* Whom end_game wrote to, if this step of p's, which may be p's fold, ran it.
EndSends(p) ==
  IF Contenders(table) \ {p} # {} /\ Contenders(table') = {} THEN table.players ELSE {}

-----------------------------------------------------------------------------
(* The clients *)

Connect(p) ==
  /\ handler[p].at = "none" /\ conn[p] # "open" /\ arrivals < MaxArrivals
  /\ conn' = [conn EXCEPT ![p] = "open"]
  /\ handler' = [handler EXCEPT ![p] = [Gone EXCEPT !.at = "top"]]
  /\ stale' = [stale EXCEPT ![p] = IF p \in table.players THEN Line(p) ELSE "none"]
  /\ arrivals' = arrivals + 1
  /\ UNCHANGED <<table, monitor>>

\* A client that goes with bytes unread resets the connection at once, otherwise
\* the server's next write does.
Break(p) ==
  /\ conn[p] \in {"open", "closed"}
  /\ \E state \in Breaks[p] \ {conn[p]} : conn' = [conn EXCEPT ![p] = state]
  /\ UNCHANGED <<table, handler, stale, monitor, arrivals>>

-----------------------------------------------------------------------------
(* The handlers *)

Moves(p, at) ==
  /\ handler' = [handler EXCEPT ![p].at = at]
  /\ UNCHANGED <<monitor, arrivals>>

Quietly == UNCHANGED <<table, conn, stale>>

\* The thread returns and its end of the stream is closed.
Returns(p) ==
  handler' = [handler EXCEPT ![p] = Gone] /\ UNCHANGED <<monitor, arrivals>>

\* is_turn stays what it is here until the next round of the loop.
Top(p) ==
  /\ Available /\ handler[p].at = "top"
  /\ handler' = [handler EXCEPT ![p].at = "read", ![p].command = None,
                                ![p].isTurn = handler[p].joined /\ table.turn = p]
  /\ Quietly /\ UNCHANGED <<monitor, arrivals>>

\* No answer to the PING that half a minute's silence in a turn brings about.
PingFails(p) ==
  /\ handler[p].at = "read" /\ handler[p].isTurn
  /\ Moves(p, "drop") /\ UNCHANGED table /\ Writes({p}, {})

\* The second of the read's timeout passes; a read of a connection that is over does
\* not wait.
ReadNothing(p) ==
  handler[p].at = "read" /\ conn[p] = "open" /\ Moves(p, "top") /\ Quietly

ReadEnd(p) ==
  /\ handler[p].at = "read" /\ conn[p] # "open"
  /\ IF handler[p].joined THEN Moves(p, "drop") ELSE Returns(p)
  /\ UNCHANGED table /\ Writes({}, {})

\* What is answered, if it can be, without a look at the turn: an UPDATE, an empty
\* line, or anything but a JOIN of a client who has not joined.
ReadOther(p) ==
  /\ handler[p].at = "read"
  /\ Moves(p, "top") /\ UNCHANGED table /\ Writes({p}, {})

ReadJoin(p) ==
  /\ handler[p].at = "read" /\ ~handler[p].joined /\ Moves(p, "join") /\ Quietly

ReadLeave(p) ==
  /\ handler[p].at = "read" /\ handler[p].joined /\ Moves(p, "drop") /\ Quietly

ReadBet(p, command) ==
  /\ handler[p].at = "read" /\ handler[p].joined
  /\ handler' = [handler EXCEPT ![p].at = "gate", ![p].command = command]
  /\ Quietly /\ UNCHANGED <<monitor, arrivals>>

\* handle_join.  An Err ends the thread, whatever add_player did before it: it gives
\* the node of a player who is seated the new stream, and then cannot lock it.
JoinTable(p) ==
  \E chips \in JoinChips :
    /\ Available /\ handler[p].at = "join"
    /\ Chips(table) + chips <= MaxChips
    /\ table' = AddPlayer(table, p, chips)
    /\ \/ /\ p \notin table.players /\ p \in table'.players /\ conn[p] # "reset"
          /\ handler' = [handler EXCEPT ![p].at = "top", ![p].joined = TRUE]
          /\ Writes({p}, {p}) /\ UNCHANGED <<monitor, arrivals>>
       \/ /\ p \notin table.players /\ (p \in table'.players => conn[p] = "reset")
          /\ Returns(p) /\ Writes({p}, {})
       \/ /\ p \in table.players /\ Returns(p)
          /\ stale' = [stale EXCEPT ![p] = "none"] /\ conn' \in AfterWrites(conn, {p})

\* remove_player gives up when the fold's answer cannot be sent.
TryRemove(t, p, fails, order, rank) ==
  IF fails THEN Fold(t, p, rank) ELSE Remove(t, p, order, rank)

\* mutant: a player who is not at turn keeps the seat
DisconnectTurnOnly(t, p, isTurn, fails, order, rank) ==
  LET out   == TryRemove(t, p, fails, order, rank)
      moved == AdvanceTurn(out, rank)
  IN IF ~isTurn THEN t ELSE IF out.health # "ok" THEN out
     ELSE IF Cardinality(moved.players) < 2 THEN EndGame(moved, rank) ELSE moved

\* handle_player_disconnect
Disconnect(t, p, isTurn, fails, order, rank) ==
  LET out   == TryRemove(t, p, fails, order, rank)
      moved == IF isTurn THEN AdvanceTurn(out, rank) ELSE out
  IN IF out.health # "ok" THEN out
     ELSE IF Cardinality(moved.players) < 2 THEN EndGame(moved, rank) ELSE moved

\* Whether fold's answer to p fails: on a stream that is reset, by the end of the
\* hand that the fold has just sent word of, too.
FoldFails(p, rank, fails) ==
  /\ p \in table.players /\ Line(p) = "reset" => fails
  /\ fails =>
       /\ p \in table.players
       /\ \/ Line(p) = "reset"
          \/ HandEnds(table, Fold(table, p, rank)) /\ Line(p)' = "reset"

HandleDisconnect(p) ==
  \E rank \in Ranks[Contenders(table)], order \in Orders[table.players \ {p}],
     fails \in BOOLEAN :
    /\ Available /\ handler[p].at = "drop"
    /\ table' = Disconnect(table, p, handler[p].isTurn, fails, order, rank)
    /\ Returns(p) /\ Writes({p}, {p} \cup EndSends(p))
    /\ FoldFails(p, rank, fails)

Gate(p) ==
  /\ Available /\ handler[p].at = "gate" /\ UNCHANGED table
  /\ \/ table.turn = p /\ Moves(p, "game") /\ Writes({}, {})
     \/ table.turn # p /\ Moves(p, "top") /\ Writes({p}, {})

\* The handler writes game_actions' answer while it holds the table, and calls
\* handle_player_disconnect, which locks it again, when the write fails.  The answer
\* to REPLACE_CARDS is the second write, after player_send's.
GameAction(p) ==
  LET replaces == /\ p \in table.players /\ IsDrawRound(table)
                  /\ handler[p].command.verb = "REPLACE_CARDS"
  IN /\ Available /\ handler[p].at = "game"
     /\ \/ /\ p \in table.players /\ ~IsDrawRound(table)
           /\ Moves(p, "act") /\ UNCHANGED table /\ Writes({}, {})
        \/ /\ p \notin table.players \/ IsDrawRound(table)
           /\ ~replaces /\ conn[p] # "reset"
           /\ Moves(p, "top") /\ UNCHANGED table /\ Writes({p}, {})
        \/ /\ replaces /\ conn[p] # "reset"
           /\ \E rank \in Ranks[Contenders(table)] : table' = AdvanceTurn(table, rank)
           /\ Moves(p, "top") /\ Writes({p}, {p} \cup EndSends(p))
        \/ /\ p \notin table.players \/ IsDrawRound(table)
           /\ conn[p] = "reset" \/ replaces
           /\ table' = [table EXCEPT !.health = "selflock"]
           /\ UNCHANGED <<handler, monitor, arrivals>>
           /\ Writes({p}, {}) /\ conn'[p] = "reset"

\* Where a bet's result leads: on to advance_turn, round again, or out.  The handler
\* writes it after it let go of the table, and the first write was player_send's.
Answer(p, isOk) ==
  \/ /\ conn[p] # "reset"
     /\ Moves(p, IF isOk THEN "advance" ELSE "top") /\ Writes({p}, EndSends(p))
  \/ /\ Moves(p, "drop") /\ Writes({p}, EndSends(p))
     /\ conn'[p] = "reset"

Act(p) ==
  LET verb == handler[p].command.verb
      amount == handler[p].command.amount
  IN /\ Available /\ handler[p].at = "act"
     /\ \/ /\ verb = "RAISE"
           /\ table' = Raise(table, p, amount) /\ Answer(p, RaiseOk(table, p, amount))
        \/ /\ verb = "ALL_IN"
           /\ table' = AllIn(table, p) /\ Answer(p, AllInOk(table, p))
        \/ /\ verb = "CHECK"
           /\ table' = Check(table, p) /\ Answer(p, CheckOk(table, p))
        \/ /\ verb = "FOLD"
           /\ \E rank \in Ranks[Contenders(table)] : table' = Fold(table, p, rank)
           /\ Answer(p, p \in table.players)
        \/ /\ verb = "REPLACE_CARDS"
           /\ UNCHANGED table /\ Answer(p, FALSE)

Advance(p) ==
  \E rank \in Ranks[Contenders(table)] :
    /\ Available /\ handler[p].at = "advance"
    /\ table' = AdvanceTurn(table, rank) /\ Moves(p, "top") /\ Writes({}, EndSends(p))

-----------------------------------------------------------------------------
(* The monitor *)

Transition(from, to) ==
  /\ Available /\ monitor = from /\ monitor' = to
  /\ UNCHANGED <<handler, arrivals>>

EnoughToStart == Cardinality(table.players) >= 2 /\ ~IsRunning(table)

\* expire_timed_out_turn advances the turn only if the player is removed.
Expire(t, fails, order, rank) ==
  IF fails THEN Fold(t, t.turn, rank) ELSE ExpireTurn(t, order, rank)

MonitorExpire ==
  /\ Transition("expire", "count")
  /\ \/ /\ table.showdown = None /\ table.clock = "expired"
        /\ \E rank \in Ranks[Contenders(table)], order \in Orders[table.players \ {table.turn}],
              p \in Ids, fails \in BOOLEAN :
             /\ table.turn = p /\ table' = Expire(table, fails, order, rank)
             /\ Writes({}, {p} \cup EndSends(p)) /\ FoldFails(p, rank, fails)
     \/ /\ table.showdown # None \/ table.clock # "expired"
        /\ Quietly

MonitorCount ==
  Transition("count", IF EnoughToStart THEN "start" ELSE "expire") /\ Quietly

\* The players whose ante or blind start_game sends word of.
StartSends == {q \in table'.players : /\ table'.pbet[q] = table'.bet
                                      /\ IsAnte \/ (q = table'.blind /\ table'.bet # 0)}

\* mutant: nothing is looked at again after the wait
MonitorStartUnchecked ==
  \E order \in Orders[table.players] :
    /\ Transition("start", "expire")
    /\ table' = StartGame(table, order) /\ Writes({}, StartSends)

\* After thirty seconds without the lock, in which every handler has gone round.
MonitorStart ==
  /\ Transition("start", "expire")
  /\ \A p \in Ids : ~handler[p].isTurn
  /\ \/ \E order \in Orders[table.players] :
          EnoughToStart /\ table' = StartGame(table, order) /\ Writes({}, StartSends)
     \/ ~EnoughToStart /\ Quietly

Monitor == MonitorExpire \/ MonitorCount \/ MonitorStart

Tick ==
  /\ Expires /\ Available /\ table.clock = "fresh"
  /\ table' = [table EXCEPT !.clock = "expired"]
  /\ UNCHANGED <<conn, handler, stale, monitor, arrivals>>

Serves(p) ==
  \/ Top(p) \/ ReadNothing(p) \/ ReadEnd(p) \/ JoinTable(p) \/ HandleDisconnect(p)
  \/ Gate(p) \/ GameAction(p) \/ Act(p) \/ Advance(p)

Asks(p) ==
  \/ PingFails(p) \/ ReadOther(p) \/ ReadJoin(p) \/ ReadLeave(p)
  \/ \E command \in Commands(p) : ReadBet(p, command)

Next ==
  \/ \E p \in Ids : Connect(p) \/ Break(p) \/ Serves(p) \/ Asks(p)
  \/ Monitor \/ Tick

Spec == Init /\ [][Next]_vars

Threads ==
  [at : {"none", "top", "read", "join", "drop", "gate", "game", "act", "advance"},
   joined : BOOLEAN, isTurn : BOOLEAN, command : {None} \cup UNION {Commands(p) : p \in Ids}]

\* Every step of a handler, and no other, moves it to another place, and it always
\* has a next step while the mutex can be taken.
HandlerMoves(p) ==
  /\ Available /\ handler[p].at # "none"
  /\ \E thread \in Threads :
        thread.at # handler[p].at /\ handler' = [handler EXCEPT ![p] = thread]

\* The threads go on, and what a client had sent before it went is read some day.
FairSpec ==
  Spec /\ \A p \in Ids : WF_handler(HandlerMoves(p)) /\ SF_vars(ReadEnd(p))

-----------------------------------------------------------------------------

\* What handle_player_disconnect does under one lock, a fold that remove_player goes
\* no further than and an end_game of its own included, leaves the hand's ring and
\* the table's pointers as the web server's calls do.
RingsSound ==
  /\ RingLinks(table) /\ TurnOnRing(table) /\ OneCycle(table)
  /\ PointersSeated(table) /\ SeatLinks(table)

\* A player whose connection ends leaves the table, without anybody else's doing; or
\* at least the hand, if the connection is reset, by an earlier write or by one of the
\* same fold's, so that the fold's answer cannot be sent and remove_player gives up
\* (lib.rs:328); unless a handler locks the table it already holds
\* (clienthandler.rs:182).
LeaverIsOut ==
  \A p \in Ids :
    conn[p] \in {"closed", "reset"} /\ handler[p].joined ~>
      \/ /\ handler[p].at = "none"
         /\ p \in table.players => conn[p] = "reset" /\ p \notin Ring(table)
      \/ table.health = "selflock"
=============================================================================
