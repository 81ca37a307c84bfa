----------------------------- MODULE TcpSafety ------------------------------
(***************************************************************************)
(* The theorems about the TCP server.  Of TcpTable: whatever connections   *)
(* break and come back at whatever moment, what is left of a hand and of   *)
(* the table's pointers is sound between any two critical sections, for    *)
(* any number of clients and connections and each of the three games.  Of  *)
(* Lobby, in the second part: what the lobby lists is served.              *)
(***************************************************************************)
EXTENDS TcpTable, TableLemmas, Registry

\* A table whose mutex is held for ever is what it was when it was locked.
TableSound ==
  \E t : Sound(t) /\ table \in {t, [t EXCEPT !.health = "selflock"]}

\* A handler past its read of a bet still has the command.
HandlerOK(q, p) ==
  /\ q \in Threads
  /\ q.at \in {"gate", "game", "act"} => q.command \in Commands(p)

TypeOK ==
  /\ handler \in [Ids -> Threads]
  /\ \A p \in Ids : HandlerOK(handler[p], p)

TcpInv == TableSound /\ TypeOK

LEMMA CommandType ==
  ASSUME NEW p \in Ids, NEW command \in Commands(p)
  PROVE  command.amount \in Nat
<1>1. CASE command \in [verb : Verbs[p] \cap {"RAISE"}, amount : Amounts]
  BY <1>1, TcpAssumption
<1>2. CASE command \in {[verb |-> v, amount |-> 0] : v \in Verbs[p] \ {"RAISE"}}
  BY <1>2
<1> QED
  BY <1>1, <1>2 DEF Commands

\* While the mutex can be taken the table is sound as it is.
LEMMA AvailableSound ==
  ASSUME TableSound, Available
  PROVE  Sound(table)
<1>1. PICK t : Sound(t) /\ table \in {t, [t EXCEPT !.health = "selflock"]}
  BY DEF TableSound
<1>2. [t EXCEPT !.health = "selflock"].health = "selflock"
  BY <1>1 DEF Sound, TableType
<1> QED
  BY <1>1, <1>2 DEF Available

LEMMA SoundIsTableSound ==
  ASSUME Sound(table')
  PROVE  TableSound'
BY DEF TableSound

-----------------------------------------------------------------------------
(* The handlers' own state.                                                 *)

LEMMA GoneType ==
  ASSUME NEW p \in Ids
  PROVE  HandlerOK(Gone, p) /\ HandlerOK([Gone EXCEPT !.at = "top"], p)
<1>1. Gone \in Threads /\ [Gone EXCEPT !.at = "top"] \in Threads
  BY DEF Gone, Threads
<1>2. Gone.at = "none" /\ [Gone EXCEPT !.at = "top"].at = "top"
  BY DEF Gone
<1> QED
  BY <1>1, <1>2 DEF HandlerOK

LEMMA MovesType ==
  ASSUME TypeOK, NEW p \in Ids, NEW at, Moves(p, at),
         \/ at \in {"top", "join", "drop", "advance"}
         \/ at \in {"game", "act"} /\ handler[p].at \in {"gate", "game"}
  PROVE  TypeOK'
<1> DEFINE q == [handler[p] EXCEPT !.at = at]
<1>1. HandlerOK(handler[p], p) /\ handler[p] \in Threads
  BY DEF TypeOK
<1>2. q \in Threads /\ q.at = at /\ q.command = handler[p].command
  BY <1>1 DEF Threads
<1>3. HandlerOK(q, p)
  BY <1>1, <1>2 DEF HandlerOK
<1>4. handler' = [handler EXCEPT ![p] = q]
  BY DEF Moves
<1> HIDE DEF q
<1> QED
  BY <1>2, <1>3, <1>4 DEF TypeOK, HandlerOK

LEMMA MovesOutType ==
  ASSUME TypeOK, NEW p \in Ids, NEW at \in {"top", "join", "drop", "advance"}, Moves(p, at)
  PROVE  TypeOK'
BY MovesType

LEMMA TypeStep ==
  ASSUME TypeOK, [Next]_vars
  PROVE  TypeOK'
<1>1. CASE UNCHANGED handler
  BY <1>1 DEF TypeOK
<1>2. ASSUME NEW p \in Ids, NEW q, HandlerOK(q, p), handler' = [handler EXCEPT ![p] = q]
      PROVE  TypeOK'
  BY <1>2 DEF TypeOK, HandlerOK
<1>3. \A p \in Ids : /\ HandlerOK(Gone, p) /\ HandlerOK([Gone EXCEPT !.at = "top"], p)
                     /\ HandlerOK(handler[p], p) /\ handler[p] \in Threads
  BY GoneType DEF TypeOK
<1>4. ASSUME NEW p \in Ids, Returns(p)
      PROVE  TypeOK'
  BY <1>2, <1>3, <1>4 DEF Returns
<1>5. ASSUME NEW p \in Ids, Connect(p)
      PROVE  TypeOK'
  BY <1>2, <1>3, <1>5 DEF Connect
<1>6. ASSUME NEW p \in Ids, Top(p)
      PROVE  TypeOK'
  <2> DEFINE q == [handler[p] EXCEPT !.at = "read", !.command = None,
                                     !.isTurn = handler[p].joined /\ table.turn = p]
  <2>1. HandlerOK(q, p)
    <3>1. q \in Threads /\ q.at = "read"
      BY <1>3 DEF Threads
    <3> QED
      BY <3>1 DEF HandlerOK
  <2>2. handler' = [handler EXCEPT ![p] = q]
    BY <1>6 DEF Top
  <2> QED
    BY <1>2, <2>1, <2>2
<1>7. ASSUME NEW p \in Ids, NEW command \in Commands(p), ReadBet(p, command)
      PROVE  TypeOK'
  <2> DEFINE q == [handler[p] EXCEPT !.at = "gate", !.command = command]
  <2>1. HandlerOK(q, p)
    <3>1. command \in UNION {Commands(r) : r \in Ids}
      OBVIOUS
    <3>2. q \in Threads /\ q.command = command
      BY <1>3, <3>1 DEF Threads
    <3> QED
      BY <3>2 DEF HandlerOK
  <2>2. handler' = [handler EXCEPT ![p] = q]
    BY <1>7 DEF ReadBet
  <2> QED
    BY <1>2, <2>1, <2>2
<1>8. ASSUME NEW p \in Ids, JoinTable(p)
      PROVE  TypeOK'
  <2> DEFINE q == [handler[p] EXCEPT !.at = "top", !.joined = TRUE]
  <2>1. HandlerOK(q, p)
    <3>1. q \in Threads /\ q.at = "top"
      BY <1>3 DEF Threads
    <3> QED
      BY <3>1 DEF HandlerOK
  <2>2. handler' = [handler EXCEPT ![p] = q] \/ Returns(p)
    BY <1>8 DEF JoinTable
  <2> QED
    BY <1>2, <1>3, <1>4, <2>1, <2>2
<1>9. ASSUME NEW p \in Ids,
             \/ PingFails(p) \/ ReadNothing(p) \/ ReadOther(p) \/ ReadJoin(p) \/ ReadLeave(p)
             \/ Advance(p)
      PROVE  TypeOK'
  <2>1. \E at \in {"top", "join", "drop"} : Moves(p, at)
    BY <1>9 DEF PingFails, ReadNothing, ReadOther, ReadJoin, ReadLeave, Advance
  <2> QED
    BY <2>1, MovesOutType
<1>10. ASSUME NEW p \in Ids, ReadEnd(p)
       PROVE  TypeOK'
  BY <1>4, <1>10, MovesOutType DEF ReadEnd
<1>11. ASSUME NEW p \in Ids, HandleDisconnect(p)
       PROVE  TypeOK'
  BY <1>4, <1>11 DEF HandleDisconnect
<1>12. ASSUME NEW p \in Ids, Gate(p)
       PROVE  TypeOK'
  BY <1>12, MovesType DEF Gate
<1>13. ASSUME NEW p \in Ids, GameAction(p)
       PROVE  TypeOK'
  BY <1>1, <1>13, MovesType DEF GameAction
<1>14. ASSUME NEW p \in Ids, Act(p)
       PROVE  TypeOK'
  <2>1. \E at \in {"top", "drop", "advance"} : Moves(p, at)
    BY <1>14 DEF Act, Answer
  <2> QED
    BY <2>1, MovesOutType
<1>15. CASE Monitor \/ Tick \/ (\E p \in Ids : Break(p)) \/ UNCHANGED vars
  BY <1>1, <1>15
     DEF Monitor, MonitorExpire, MonitorCount, MonitorStart, Transition, Tick, Break, vars
<1> QED
  BY <1>5, <1>6, <1>7, <1>8, <1>9, <1>10, <1>11, <1>12, <1>13, <1>14, <1>15
     DEF Next, Serves, Asks

-----------------------------------------------------------------------------
(* The table.                                                               *)

\* advance_turn puts nobody back into a hand.
LEMMA AdvanceTurnContenders ==
  ASSUME NEW t, Sound(t), NEW rank
  PROVE  Contenders(AdvanceTurn(t, rank)) \subseteq Contenders(t)
<1>1. ASSUME NEW u, u = t \/ SameHand(t, u)
      PROVE  Contenders(u) = Contenders(t)
  BY <1>1 DEF SameHand, Contenders
<1>2. ASSUME NEW v \in TableType
      PROVE  Contenders(EndGame(v, rank)) \subseteq Contenders(v)
  <2>1. CASE Best(v, rank, Contenders(v)) = None
    BY <2>1 DEF EndGame
  <2>2. CASE Best(v, rank, Contenders(v)) # None
    BY <2>2, EndGameFields DEF Contenders, TableType
  <2> QED
    BY <2>1, <2>2
<1> QED
  BY <1>1, <1>2, AdvanceTurnCases

\* end_game may be called whatever the state of the hand.
LEMMA EndGameKeeps ==
  ASSUME NEW t, Sound(t), NEW C \in SUBSET Ids, NEW rank \in Ranks[C],
         Contenders(t) \subseteq C
  PROVE  Sound(EndGame(t, rank))
<1>1. CASE Contenders(t) = {}
  <2>1. Best(t, rank, Contenders(t)) = None
    BY <1>1 DEF Best
  <2> QED
    BY <2>1 DEF EndGame
<1>2. CASE Contenders(t) # {}
  BY <1>2, EndGameSound DEF Sound
<1> QED
  BY <1>1, <1>2

\* A player who is not seated has nothing to fold and no seat to give up.
LEMMA TryRemoveSound ==
  ASSUME NEW t, Sound(t), t.health = "ok", NEW p \in Ids, NEW fails \in BOOLEAN,
         NEW rank \in Ranks[Contenders(t)], NEW order \in Orders[t.players \ {p}]
  PROVE  LET out == TryRemove(t, p, fails, order, rank)
         IN Sound(out) /\ Contenders(out) \subseteq Contenders(t)
<1>1. t \in TableType
  BY DEF Sound
<1>2. CASE p \notin t.players
  BY <1>2 DEF TryRemove, Fold, Remove
<1>3. CASE p \in t.players
  <2>1. Sound(Fold(t, p, rank)) /\ Contenders(Fold(t, p, rank)) \subseteq Contenders(t)
    BY <1>1, <1>3, FoldSound, ContendersFold
  <2>2. Sound(Remove(t, p, order, rank))
    BY <1>3, RemoveSound
  <2>3. Contenders(Remove(t, p, order, rank)) \subseteq Contenders(t)
    BY <1>1, <1>3, ContendersRemove
  <2> QED
    BY <2>1, <2>2, <2>3 DEF TryRemove
<1> QED
  BY <1>2, <1>3

\* handle_player_disconnect, with the advance_turn of a player who had the turn
\* and the end_game of a table that one player is left at.
LEMMA DisconnectSound ==
  ASSUME NEW t, Sound(t), t.health = "ok", NEW p \in Ids,
         NEW isTurn \in BOOLEAN, NEW fails \in BOOLEAN,
         NEW rank \in Ranks[Contenders(t)], NEW order \in Orders[t.players \ {p}]
  PROVE  Sound(Disconnect(t, p, isTurn, fails, order, rank))
<1> DEFINE out   == TryRemove(t, p, fails, order, rank)
           moved == IF isTurn THEN AdvanceTurn(out, rank) ELSE out
<1>1. Contenders(t) \in SUBSET Ids /\ Sound(out) /\ Contenders(out) \subseteq Contenders(t)
  BY TryRemoveSound, ContendersSubset DEF Sound
<1> HIDE DEF out
<1>2. CASE out.health # "ok"
  BY <1>1, <1>2 DEF Disconnect, out
<1>3. CASE out.health = "ok"
  <2>1. Sound(AdvanceTurn(out, rank)) /\ Contenders(AdvanceTurn(out, rank)) \subseteq Contenders(out)
    BY <1>1, <1>3, AdvanceTurnSound, AdvanceTurnContenders
  <2>2. Sound(moved) /\ Contenders(moved) \subseteq Contenders(t)
    BY <1>1, <2>1
  <2> HIDE DEF moved
  <2>3. Sound(EndGame(moved, rank))
    BY <1>1, <2>2, EndGameKeeps
  <2> QED
    BY <1>3, <2>2, <2>3 DEF Disconnect, out, moved
<1> QED
  BY <1>2, <1>3

\* What the monitor does of a turn that is late.
LEMMA ExpireSound ==
  ASSUME NEW t, Sound(t), t.health = "ok", t.clock = "expired", NEW fails \in BOOLEAN,
         NEW rank \in Ranks[Contenders(t)], NEW order \in Orders[t.players \ {t.turn}]
  PROVE  Sound(Expire(t, fails, order, rank))
<1>1. IsRunning(t) /\ t.turn \in t.players
  BY RingSeated DEF Sound, TurnOnRing
<1>2. Sound(Fold(t, t.turn, rank)) /\ Sound(ExpireTurn(t, order, rank))
  BY <1>1, FoldSound, ExpireTurnSound
<1> QED
  BY <1>2 DEF Expire

\* game_actions leaves a sound table, or one whose mutex nobody gets any more.
LEMMA GameActionSound ==
  ASSUME TableSound, NEW p \in Ids, GameAction(p)
  PROVE  TableSound'
<1>1. Available /\ Sound(table)
  BY AvailableSound DEF GameAction
<1>2. CASE UNCHANGED table
  BY <1>2 DEF TableSound
<1>3. CASE \E rank \in Ranks[Contenders(table)] : table' = AdvanceTurn(table, rank)
  <2>1. Contenders(table) \in SUBSET Ids
    BY <1>1, ContendersSubset DEF Sound
  <2>2. Sound(table')
    BY <1>1, <1>3, <2>1, AdvanceTurnSound DEF Available
  <2> QED
    BY <2>2, SoundIsTableSound
<1>4. CASE table' = [table EXCEPT !.health = "selflock"]
  BY <1>1, <1>4 DEF TableSound
<1> QED
  BY <1>2, <1>3, <1>4 DEF GameAction

\* A bet, or a fold.
LEMMA ActSound ==
  ASSUME TableSound, TypeOK, NEW p \in Ids, Act(p)
  PROVE  TableSound'
<1> DEFINE amount == handler[p].command.amount
<1>1. Available /\ Sound(table)
  BY AvailableSound DEF Act
<1>2. amount \in Nat
  BY CommandType DEF Act, TypeOK, HandlerOK
<1> HIDE DEF amount
<1>3. /\ Sound(Raise(table, p, amount)) /\ Sound(AllIn(table, p)) /\ Sound(Check(table, p))
  BY <1>1, <1>2, RaiseSound, AllInSound, CheckSound
<1>4. ASSUME NEW rank \in Ranks[Contenders(table)]
      PROVE  Sound(Fold(table, p, rank))
  <2>1. CASE p \in table.players
    BY <1>1, <2>1, FoldSound
  <2>2. CASE p \notin table.players
    BY <1>1, <2>2 DEF Fold
  <2> QED
    BY <2>1, <2>2
<1>5. Sound(table')
  BY <1>1, <1>3, <1>4 DEF Act, amount
<1> QED
  BY <1>5, SoundIsTableSound

\* Every critical section keeps a sound table sound, and every other step keeps it.
LEMMA SoundStep ==
  ASSUME TableSound, TypeOK, [Next]_vars
  PROVE  TableSound'
<1>1. CASE UNCHANGED table
  BY <1>1 DEF TableSound
<1>2. ASSUME NEW p \in Ids, JoinTable(p)
      PROVE  TableSound'
  <2>1. Sound(table')
    BY <1>2, AvailableSound, AddPlayerSound, TcpAssumption DEF JoinTable
  <2> QED
    BY <2>1, SoundIsTableSound
<1>3. ASSUME NEW p \in Ids, HandleDisconnect(p)
      PROVE  TableSound'
  <2>1. Sound(table) /\ table.health = "ok"
    BY <1>3, AvailableSound DEF HandleDisconnect, Available
  <2>2. handler[p].isTurn \in BOOLEAN
    BY DEF TypeOK, Threads
  <2>3. Sound(table')
    BY <1>3, <2>1, <2>2, DisconnectSound DEF HandleDisconnect
  <2> QED
    BY <2>3, SoundIsTableSound
<1>4. ASSUME NEW p \in Ids, Advance(p)
      PROVE  TableSound'
  <2>1. Sound(table) /\ table.health = "ok"
    BY <1>4, AvailableSound DEF Advance, Available
  <2>2. Contenders(table) \in SUBSET Ids
    BY <2>1, ContendersSubset DEF Sound
  <2>3. Sound(table')
    BY <1>4, <2>1, <2>2, AdvanceTurnSound DEF Advance
  <2> QED
    BY <2>3, SoundIsTableSound
<1>5. CASE MonitorExpire
  <2>1. Sound(table) /\ table.health = "ok"
    BY <1>5, AvailableSound DEF MonitorExpire, Transition, Available
  <2>2. UNCHANGED table \/ Sound(table')
    BY <1>5, <2>1, ExpireSound DEF MonitorExpire, Quietly
  <2> QED
    BY <1>1, <2>2, SoundIsTableSound
<1>6. CASE MonitorStart
  <2>1. Sound(table)
    BY <1>6, AvailableSound DEF MonitorStart, Transition
  <2>2. UNCHANGED table \/ Sound(table')
    BY <1>6, <2>1, StartGameSound DEF MonitorStart, EnoughToStart, Quietly
  <2> QED
    BY <1>1, <2>2, SoundIsTableSound
<1>7. CASE Tick
  <2>1. Sound(table')
    BY <1>7, AvailableSound, TickSound DEF Tick
  <2> QED
    BY <2>1, SoundIsTableSound
<1>8. ASSUME NEW p \in Ids,
             Connect(p) \/ Break(p) \/ Top(p) \/ ReadNothing(p) \/ ReadEnd(p) \/ Gate(p) \/ Asks(p)
      PROVE  UNCHANGED table
  BY <1>8 DEF Connect, Break, Top, ReadNothing, ReadEnd, Gate, Asks, PingFails, ReadOther,
              ReadJoin, ReadLeave, ReadBet, Quietly
<1>9. CASE MonitorCount \/ UNCHANGED vars
  BY <1>1, <1>9 DEF MonitorCount, Quietly, vars
<1> QED
  BY <1>1, <1>2, <1>3, <1>4, <1>5, <1>6, <1>7, <1>8, <1>9, GameActionSound, ActSound
     DEF Next, Serves, Monitor

-----------------------------------------------------------------------------

\* Between any two critical sections of the handlers and the monitor the table is
\* sound, or is a sound table whose mutex a handler holds for ever.
THEOREM TcpTableSound == Spec => []TcpInv
<1>1. Init => TcpInv
  <2>1. SUFFICES ASSUME Init PROVE TcpInv
    OBVIOUS
  <2>2. Sound(table)
    BY <2>1, NewTableSound DEF Init
  <2>3. \A p \in Ids : HandlerOK(Gone, p)
    BY GoneType
  <2>4. TypeOK
    BY <2>1, <2>3 DEF Init, TypeOK, HandlerOK
  <2> QED
    BY <2>2, <2>4 DEF TcpInv, TableSound
<1>2. TcpInv /\ [Next]_vars => TcpInv'
  BY SoundStep, TypeStep DEF TcpInv
<1> QED
  BY <1>1, <1>2, PTL DEF Spec

\* TcpTable's RingsSound: a fold that remove_player goes no further than, a removal
\* of a player whose connection broke and the monitor's, in any order, leave one
\* ring in both directions and no pointer to a player who is gone.
THEOREM TcpRingsSound == Spec => []RingsSound
<1>1. TcpInv => RingsSound
  <2>1. SUFFICES ASSUME TcpInv PROVE RingsSound
    OBVIOUS
  <2>2. PICK t : Sound(t) /\ table \in {t, [t EXCEPT !.health = "selflock"]}
    BY <2>1 DEF TcpInv, TableSound
  <2>3. /\ table.players = t.players /\ table.folded = t.folded
        /\ table.nextf = t.nextf /\ table.prevf = t.prevf
        /\ table.next = t.next /\ table.prev = t.prev
        /\ table.head = t.head /\ table.blind = t.blind /\ table.bettor = t.bettor
        /\ table.turn = t.turn /\ table.clock = t.clock
    BY <2>2 DEF Sound, TableType
  <2>4. Ring(table) = Ring(t) /\ Contenders(table) = Contenders(t)
    BY <2>3 DEF Ring, Contenders
  <2>5. RingLinks(table) /\ TurnOnRing(table) /\ OneCycle(table)
    BY <2>2, <2>3, <2>4 DEF Sound, RingLinks, TurnOnRing, OneCycle, IsRunning
  <2>6. PointersSeated(table) /\ SeatLinks(table)
    BY <2>2, <2>3 DEF Sound, PointersSeated, SeatLinks
  <2> QED
    BY <2>5, <2>6 DEF RingsSound
<1> QED
  BY <1>1, TcpTableSound, PTL

-----------------------------------------------------------------------------
(* The lobby.                                                               *)

CONSTANTS Clients, Games, Limits

VARIABLES limits, casting, owner, calls, stopAll,
          lobby, discovery, notifier, news, manager, inLobby, lobbyConn, at, asked, told, known

L == INSTANCE Lobby WITH conn <- lobbyConn

\* Between the bind and the insertion the new port is nobody else's; a port is told
\* to stop only while the owner waits for it, and its game is in the list no more.
OwnerKnows ==
  /\ owner = [at |-> owner.at, port |-> owner.port, game |-> owner.game]
  /\ owner.at = "insert" => owner.port \in bound
  /\ owner.at \in {"insert", "join"} => \A g \in Registered : tables[g] # owner.port
  /\ stopping \subseteq {owner.port}
  /\ owner.at # "join" => stopping = {}

\* ListedIsServed without the library's words for it.
EachServed ==
  /\ \A g \in Registered : tables[g] \in bound \ stopping
  /\ \A g, h \in Registered : tables[g] = tables[h] => g = h

LobbyInv ==
  /\ OwnerKnows /\ EachServed

\* What the invariant is about is the owner's and the tables'.
LEMMA OthersKeep ==
  ASSUME LobbyInv, UNCHANGED <<tables, bound, stopping, owner>>
  PROVE  LobbyInv'
BY DEF LobbyInv, OwnerKnows, EachServed, Registered

\* register_game reads the number of tables, and binds, before it locks them.
LEMMA RegisterKeeps ==
  ASSUME LobbyInv, L!RegisterCount \/ L!RegisterLaunch \/ L!RegisterInsert
  PROVE  LobbyInv'
<1> USE DEF LobbyInv, OwnerKnows, EachServed
<1>1. CASE L!RegisterCount
  <2>1. UNCHANGED <<tables, bound, stopping>> /\ owner.at = "idle"
    BY <1>1 DEF L!RegisterCount
  <2>2. Registered' = Registered
    BY <2>1 DEF Registered
  <2>3. PICK g, n : owner' = [at |-> "launch", port |-> n, game |-> g]
    BY <1>1 DEF L!RegisterCount
  <2> QED
    BY <2>1, <2>2, <2>3
<1>2. CASE L!RegisterLaunch
  <2>1. UNCHANGED <<tables, stopping>> /\ owner.at = "launch"
    BY <1>2 DEF L!RegisterLaunch
  <2>2. Registered' = Registered
    BY <2>1 DEF Registered
  <2>3. CASE owner.port \in bound
    <3>1. owner' = [L!Idle EXCEPT !.at = "panicked"] /\ bound' = bound
      BY <1>2, <2>3 DEF L!RegisterLaunch
    <3> QED
      BY <2>1, <2>2, <3>1 DEF L!Idle
  <2>4. CASE owner.port \notin bound
    <3>1. bound' = bound \cup {owner.port} /\ owner' = [owner EXCEPT !.at = "insert"]
      BY <1>2, <2>4 DEF L!RegisterLaunch
    <3>2. owner'.at = "insert" /\ owner'.port = owner.port /\ owner'.game = owner.game
      BY <3>1
    <3>3. owner' = [at |-> owner'.at, port |-> owner'.port, game |-> owner'.game]
      BY <3>1, <3>2
    <3>4. \A g \in Registered : tables[g] # owner.port
      BY <2>4
    <3> QED
      BY <2>1, <2>2, <3>1, <3>2, <3>3, <3>4
  <2> QED
    BY <2>3, <2>4
<1>3. CASE L!RegisterInsert
  <2>1. /\ UNCHANGED <<bound, stopping>> /\ owner.at = "insert" /\ owner' = L!Idle
        /\ tables' = [g \in Registered \cup {owner.game} |->
                        IF g = owner.game THEN owner.port ELSE tables[g]]
    BY <1>3 DEF L!RegisterInsert, L!Registered, Registered
  <2>2. Registered' \subseteq Registered \cup {owner.game}
    BY <2>1 DEF Registered
  <2>3. \A g \in Registered' : \/ g = owner.game /\ tables'[g] = owner.port
                               \/ g \in Registered \ {owner.game} /\ tables'[g] = tables[g]
    BY <2>1, <2>2 DEF Registered
  <2>4. stopping = {} /\ owner.port \in bound /\ \A g \in Registered : tables[g] # owner.port
    BY <2>1
  <2>5. EachServed'
    BY <2>1, <2>3, <2>4
  <2>6. OwnerKnows'
    BY <2>1, <2>4 DEF L!Idle
  <2> QED
    BY <2>1, <2>5, <2>6
<1> QED
  BY <1>1, <1>2, <1>3

\* shutdown_game takes the game out of the tables, and waits with them in hand.
LEMMA RemoveKeeps ==
  ASSUME LobbyInv, NEW g \in Registered, L!Remove(g), stopping = {}
  PROVE  LobbyInv'
<1> USE DEF LobbyInv, OwnerKnows, EachServed
<1>1. /\ owner' = [at |-> "join", port |-> tables[g], game |-> g] /\ bound' = bound
      /\ tables' = [h \in Registered \ {g} |-> tables[h]] /\ stopping' = stopping \cup {tables[g]}
  BY DEF L!Remove, L!Registered, L!Restrict, Registered
<1>2. Registered' = Registered \ {g} /\ \A h \in Registered' : tables'[h] = tables[h]
  BY <1>1 DEF Registered
<1>3. \A h \in Registered' : tables'[h] # tables[g]
  BY <1>2
<1>4. OwnerKnows'
  BY <1>1, <1>2, <1>3
<1>5. EachServed'
  BY <1>1, <1>2, <1>3
<1> QED
  BY <1>1, <1>4, <1>5

LEMMA ShutDownKeeps ==
  ASSUME LobbyInv,
         L!ShutDownGame \/ L!ShutDownJoined \/ L!ShutDownAll \/ L!ShutDownLobby \/ L!ShutDownNext
  PROVE  LobbyInv'
<1>1. ASSUME NEW place, owner.at # "join", owner.at # "insert",
             owner'.at = place, place \notin {"insert", "join"},
             owner' = [L!Idle EXCEPT !.at = place] \/ owner' = [owner EXCEPT !.at = place],
             UNCHANGED <<tables, bound, stopping>>
      PROVE  LobbyInv'
  <2>1. owner' = [at |-> place, port |-> owner'.port, game |-> owner'.game] /\ stopping = {}
    BY <1>1 DEF LobbyInv, OwnerKnows, L!Idle
  <2>2. Registered' = Registered
    BY <1>1 DEF Registered
  <2> QED
    BY <1>1, <2>1, <2>2 DEF LobbyInv, OwnerKnows, EachServed
<1>2. owner.at # "join" => stopping = {}
  BY DEF LobbyInv, OwnerKnows
<1>3. CASE L!ShutDownGame
  BY <1>2, <1>3, RemoveKeeps DEF L!ShutDownGame, L!Registered, Registered
<1>4. CASE L!ShutDownJoined
  <2>1. /\ owner.at = "join" /\ UNCHANGED <<tables, bound>>
        /\ owner' = [L!Idle EXCEPT !.at = IF stopAll THEN "games" ELSE "idle"]
        /\ stopping' = stopping \ {owner.port}
    BY <1>4 DEF L!ShutDownJoined
  <2>2. Registered' = Registered /\ stopping' = {}
    BY <2>1 DEF Registered, LobbyInv, OwnerKnows
  <2> QED
    BY <2>1, <2>2 DEF LobbyInv, OwnerKnows, EachServed, L!Idle
<1>5. CASE L!ShutDownAll
  <2>1. /\ owner.at = "idle" /\ owner' = [L!Idle EXCEPT !.at = "lobby"]
        /\ UNCHANGED <<tables, bound, stopping>>
    BY <1>5 DEF L!ShutDownAll
  <2>2. owner'.at = "lobby"
    BY <2>1 DEF L!Idle
  <2> QED
    BY <1>1, <2>1, <2>2
<1>6. CASE L!ShutDownLobby
  <2>1. /\ owner.at = "lobby" /\ owner' = [owner EXCEPT !.at = "games"]
        /\ UNCHANGED <<tables, bound, stopping>>
    BY <1>6 DEF L!ShutDownLobby
  <2>2. owner'.at = "games"
    BY <2>1 DEF LobbyInv, OwnerKnows
  <2> QED
    BY <1>1, <2>1, <2>2
<1>7. CASE L!ShutDownNext
  <2>1. owner.at = "games"
    BY <1>7 DEF L!ShutDownNext
  <2>2. ASSUME NEW g \in Registered, L!Remove(g)
        PROVE  LobbyInv'
    BY <1>2, <2>1, <2>2, RemoveKeeps
  <2>3. CASE owner' = [owner EXCEPT !.at = "stopped"] /\ UNCHANGED <<tables, bound, stopping>>
    <3>1. owner'.at = "stopped"
      BY <2>3 DEF LobbyInv, OwnerKnows
    <3> QED
      BY <1>1, <2>1, <2>3, <3>1
  <2> QED
    BY <1>7, <2>2, <2>3 DEF L!ShutDownNext, L!Registered, Registered
<1> QED
  BY <1>3, <1>4, <1>5, <1>6, <1>7

\* A table's thread stops accepting only when its port has been told to.
LEMMA VisitKeeps ==
  ASSUME LobbyInv, L!Visit
  PROVE  LobbyInv'
<1>1. PICK port \in stopping : bound' = bound \ {port} /\ UNCHANGED <<tables, stopping, owner>>
  BY DEF L!Visit
<1>2. owner.at # "insert" /\ Registered' = Registered
  BY <1>1 DEF LobbyInv, OwnerKnows, Registered
<1> QED
  BY <1>1, <1>2 DEF LobbyInv, OwnerKnows, EachServed

LEMMA LobbyStep ==
  ASSUME LobbyInv, [L!Next]_(L!vars)
  PROVE  LobbyInv'
<1> DEFINE Keeps == UNCHANGED <<tables, bound, stopping, owner>>
<1>1. CASE L!Owner
  <2>1. L!StartLobby => Keeps
    BY DEF L!StartLobby, L!ownerVars
  <2> QED
    BY <1>1, <2>1, OthersKeep, RegisterKeeps, ShutDownKeeps DEF L!Owner
<1>2. CASE L!Visit
  BY <1>2, VisitKeeps
<1>3. L!BroadcasterEnds \/ L!DiscoveryEnds \/ L!Notifier \/ UNCHANGED L!vars => Keeps
  BY DEF L!BroadcasterEnds, L!DiscoveryEnds, L!Notifier, L!NotifierHead, L!NotifierList, L!NotifierSend,
         L!NotifierWake, L!ownerVars, L!vars
<1>4. ASSUME NEW c \in Clients,
             L!Connect(c) \/ L!Break(c) \/ L!Ask(c) \/ L!PingFails(c) \/ L!Welcome(c) \/ L!Reads(c)
      PROVE  Keeps
  BY <1>4 DEF L!Connect, L!Break, L!Ask, L!PingFails, L!Welcome, L!Reads, L!ReadEnd, L!ReadLine, L!Goes, L!ownerVars
<1>5. ASSUME NEW c \in Clients, L!Locks(c)
      PROVE  Keeps
  BY <1>5 DEF L!Locks, L!Add, L!Adding, L!List, L!Listing, L!TakeAsk, L!Asking, L!TakeLeave,
              L!Leaving, L!Takes, L!Goes, L!ownerVars
<1> HIDE DEF Keeps
<1>6. Keeps => LobbyInv'
  BY OthersKeep DEF Keeps
<1> QED
  BY <1>1, <1>2, <1>3, <1>4, <1>5, <1>6 DEF L!Next

\* ListedIsServed: the owner's calls, which look at the tables, bind a port
\* and insert it under separate locks, never list a game that no thread serves, or
\* two games with one port.
THEOREM ListedGamesServed == L!Spec => []ListedIsServed
<1>1. L!Init => LobbyInv
  <2> SUFFICES ASSUME L!Init PROVE LobbyInv
    OBVIOUS
  <2>1. Registered = {} /\ stopping = {}
    BY DEF L!Init, Registered
  <2>2. tables = <<>> /\ owner = L!Idle
    BY DEF L!Init
  <2> QED
    BY <2>1, <2>2 DEF LobbyInv, OwnerKnows, EachServed, L!Idle
<1>2. LobbyInv /\ [L!Next]_(L!vars) => LobbyInv'
  BY LobbyStep
<1>3. LobbyInv => ListedIsServed
  BY DEF LobbyInv, EachServed, ListedIsServed, IsInjective, Registered
<1> QED
  BY <1>1, <1>2, <1>3, PTL DEF L!Spec
=============================================================================
