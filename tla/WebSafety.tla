------------------------------ MODULE WebSafety ------------------------------
(***************************************************************************)
(* The theorems about WebTable.  However many requests the server works on *)
(* at once, the table is sound between any two of their critical sections. *)
(* If it works on one request at a time, next to the monitor, a bet is the *)
(* bet of the player whose turn it is, the bettor is in the hand, and      *)
(* nothing of a hand is left when it is over.                              *)
(***************************************************************************)
EXTENDS WebTable, TableLemmas

\* A thread past the turn check knows for whom it works and what to do.
RequestOK(q) ==
  /\ q \in Requests
  /\ q.at \in {"game", "act"} => q.player \in Ids /\ q.command \in Commands

TypeOK ==
  /\ req \in [Threads -> Requests]
  /\ \A r \in Threads : RequestOK(req[r])

WebInv == Sound(table) /\ TypeOK

LEMMA CommandType ==
  ASSUME NEW command \in Commands
  PROVE  command.amount \in Nat
<1>1. CASE command \in [verb : {"RAISE"}, amount : Amounts]
  BY <1>1, WebAssumption
<1>2. CASE command \in {[verb |-> v, amount |-> 0] :
                        v \in {"ALL_IN", "CHECK", "FOLD", "REPLACE_CARDS"}}
  BY <1>2
<1> QED
  BY <1>1, <1>2 DEF Commands

\* Whatever a thread does, it keeps to what it knows.
LEMMA TypeStep ==
  ASSUME WebInv, [Next]_vars
  PROVE  TypeOK'
<1>1. None \in Pointer /\ Idle \in Requests
  BY DEF Pointer, Idle, Requests
<1>2. ASSUME NEW r \in Threads, NEW q, RequestOK(q), req' = [req EXCEPT ![r] = q]
      PROVE  TypeOK'
  BY <1>2 DEF WebInv, TypeOK, RequestOK
<1>3. CASE UNCHANGED req
  BY <1>3 DEF WebInv, TypeOK
<1>4. RequestOK(Idle) /\ RequestOK([Idle EXCEPT !.at = "advance"])
  BY <1>1 DEF RequestOK, Idle, Requests
<1>5. ASSUME NEW r \in Threads, NEW command \in Commands, Gate(r, command)
      PROVE  TypeOK'
  <2>1. table.turn \in Ids
    BY <1>5 DEF WebInv, Sound, TableType, Pointer, Gate, IsRunning
  <2>2. RequestOK([at |-> "game", player |-> table.turn, command |-> command])
    BY <2>1 DEF RequestOK, Requests, Pointer
  <2> QED
    BY <1>2, <1>5, <2>2 DEF Gate
<1>6. ASSUME NEW r \in Threads, GameAction(r)
      PROVE  TypeOK'
  <2>1. RequestOK(req[r]) /\ req[r].at = "game"
    BY <1>6 DEF GameAction, WebInv, TypeOK
  <2>2. RequestOK([req[r] EXCEPT !.at = "act"])
    BY <2>1 DEF RequestOK, Requests
  <2>3. \/ req' = [req EXCEPT ![r] = [req[r] EXCEPT !.at = "act"]]
        \/ req' = [req EXCEPT ![r] = Idle]
    BY <1>6 DEF GameAction
  <2> QED
    BY <1>2, <1>4, <2>2, <2>3
<1>7. ASSUME NEW r \in Threads, Act(r)
      PROVE  TypeOK'
  <2>1. \/ req' = [req EXCEPT ![r] = [Idle EXCEPT !.at = "advance"]]
        \/ req' = [req EXCEPT ![r] = Idle]
    BY <1>7 DEF Act, Answer
  <2> QED
    BY <1>2, <1>4, <2>1
<1>8. ASSUME NEW r \in Threads, Advance(r)
      PROVE  TypeOK'
  BY <1>2, <1>4, <1>8 DEF Advance
<1>9. ASSUME NEW r \in Threads, NEW p \in Ids, Join(r, p) \/ Leave(r, p) \/ Confirm(r, p)
      PROVE  UNCHANGED req
  BY <1>9 DEF Join, Leave, Confirm
<1>10. CASE Monitor \/ Tick
  BY <1>3, <1>10 DEF Monitor, Tick, Transition, MonitorExpire, MonitorCount,
                     MonitorShowdown, MonitorPurge, MonitorStart
<1>11. CASE UNCHANGED vars
  BY <1>3, <1>11 DEF vars
<1> QED
  BY <1>3, <1>5, <1>6, <1>7, <1>8, <1>9, <1>10, <1>11 DEF Next, Request

\* Each critical section, whatever came between, keeps a sound table sound.
LEMMA SoundStep ==
  ASSUME WebInv, [Next]_vars
  PROVE  Sound(table')
<1>1. Sound(table) /\ Contenders(table) \in SUBSET Ids /\ \A r \in Threads : RequestOK(req[r])
  BY ContendersSubset DEF WebInv, TypeOK, Sound
<1>2. CASE UNCHANGED table
  BY <1>1, <1>2
<1>3. ASSUME NEW r \in Threads, NEW p \in Ids, Join(r, p)
      PROVE  Sound(table')
  BY <1>1, <1>3, AddPlayerSound, WebAssumption DEF Join
<1>4. ASSUME NEW r \in Threads, NEW p \in Ids, Leave(r, p)
      PROVE  Sound(table')
  BY <1>1, <1>4, RemoveSound DEF Leave, Available
<1>5. ASSUME NEW r \in Threads, NEW p \in Ids, Confirm(r, p)
      PROVE  Sound(table')
  BY <1>1, <1>5, KeepPlayingSound DEF Confirm
<1>6. ASSUME NEW r \in Threads, NEW command \in Commands, Gate(r, command)
      PROVE  Sound(table')
  BY <1>1, <1>6 DEF Gate
<1>7. ASSUME NEW r \in Threads, GameAction(r)
      PROVE  Sound(table')
  BY <1>1, <1>7, AdvanceTurnSound DEF GameAction, Available
<1>8. ASSUME NEW r \in Threads, Act(r)
      PROVE  Sound(table')
  <2>1. req[r].player \in Ids /\ req[r].command.amount \in Nat
    BY <1>1, <1>8, CommandType DEF Act, RequestOK
  <2>2. \A rank : req[r].player \notin table.players => Fold(table, req[r].player, rank) = table
    BY DEF Fold
  <2>3. \A rank \in Ranks[Contenders(table)] : Sound(Fold(table, req[r].player, rank))
    BY <1>1, <2>2, FoldSound
  <2> QED
    BY <1>1, <1>8, <2>1, <2>3, RaiseSound, AllInSound, CheckSound DEF Act
<1>9. ASSUME NEW r \in Threads, Advance(r)
      PROVE  Sound(table')
  BY <1>1, <1>9, AdvanceTurnSound DEF Advance, Available
<1>10. CASE MonitorExpire
  <2>1. ASSUME table.showdown = None, table.clock = "expired"
        PROVE  IsRunning(table)
    BY <1>1, <2>1 DEF Sound, TurnOnRing
  <2> QED
    BY <1>1, <1>10, <2>1, ExpireTurnSound DEF MonitorExpire, Transition, Available
<1>11. CASE MonitorPurge
  BY <1>1, <1>11, RemoveUnconfirmedSound DEF MonitorPurge
<1>12. CASE MonitorStart
  BY <1>1, <1>12, StartGameSound DEF MonitorStart, EnoughToStart
<1>13. CASE Tick
  BY <1>1, <1>13, TickSound DEF Tick
<1>14. CASE MonitorCount \/ MonitorShowdown
  BY <1>2, <1>14 DEF MonitorCount, MonitorShowdown
<1>15. CASE UNCHANGED vars
  BY <1>2, <1>15 DEF vars
<1> QED
  BY <1>3, <1>4, <1>5, <1>6, <1>7, <1>8, <1>9, <1>10, <1>11, <1>12, <1>13, <1>14, <1>15
     DEF Next, Request, Monitor

LEMMA WebInit ==
  ASSUME Init
  PROVE  WebInv
<1>1. Sound(NewTable)
  BY NewTableSound
<1>2. TypeOK
  BY DEF Init, TypeOK, RequestOK, Idle, Requests, Pointer
<1> QED
  BY <1>1, <1>2 DEF Init, WebInv

\* The requests decide under one lock what they do under the next; still the
\* table they share is sound whenever one of them, or the monitor, locks it.
THEOREM WebTableSound == Spec => []WebInv
<1>1. Init => WebInv
  BY WebInit
<1>2. WebInv /\ [Next]_vars => WebInv'
  BY SoundStep, TypeStep
     DEF WebInv, Sound, RingLinks, TurnOnRing, OneCycle, PointersSeated, SeatLinks, HandOpen,
         IsRunning, Ring, Contenders
<1> QED
  BY <1>1, <1>2, PTL DEF Spec

-----------------------------------------------------------------------------
(* The calls of module Table.  The instance T has TableOps's operators over *)
(* again, with the same constants: first, that they are the same.           *)

LEMMA SameChoices == T!Ranks = Ranks /\ T!Orders = Orders
BY DEF T!Ranks, Ranks, T!Orders, Orders, T!Bijection, Bijection, T!Injection, Injection,
       T!Surjection, Surjection, T!IsInjective, IsInjective, T!Cardinality, Cardinality

LEMMA SameReadings ==
  /\ T!NewTable = NewTable
  /\ \A S : T!Cardinality(S) = Cardinality(S)
  /\ \A t : /\ T!IsRunning(t) = IsRunning(t) /\ T!Contenders(t) = Contenders(t)
            /\ T!Chips(t) = Chips(t)
<1>1. T!NewTable = NewTable /\ \A S : T!Cardinality(S) = Cardinality(S)
  BY DEF T!NewTable, NewTable, T!Cardinality, Cardinality
<1>2. \A t : /\ T!IsRunning(t) = IsRunning(t) /\ T!Contenders(t) = Contenders(t)
             /\ T!Chips(t) = Chips(t)
  BY DEF T!IsRunning, IsRunning, T!Contenders, Contenders, T!Chips, Chips, T!Wallets, Wallets,
         T!Bets, Bets, T!Max, Max, T!SumFunctionOnSet, SumFunctionOnSet,
         T!FoldFunctionOnSet, FoldFunctionOnSet, T!MapThenFoldSet, MapThenFoldSet
<1> QED
  BY <1>1, <1>2

LEMMA SameBets ==
  \A t, p, amount :
    /\ T!Raise(t, p, amount) = Raise(t, p, amount)
    /\ T!AllIn(t, p) = AllIn(t, p) /\ T!Check(t, p) = Check(t, p)
BY DEF T!Raise, Raise, T!AllIn, AllIn, T!Check, Check, T!Owed, Owed, T!Underflows, Underflows

LEMMA SameEndGame ==
  ASSUME NEW t, NEW rank
  PROVE  T!EndGame(t, rank) = EndGame(t, rank)
<1>1. T!PayShowdownPots(t, rank) = PayShowdownPots(t, rank)
  BY DEF T!PayShowdownPots, PayShowdownPots, T!Pots, Pots, T!LevelPot, LevelPot, T!Levels, Levels,
         T!LevelsWon, LevelsWon, T!LevelWinner, LevelWinner, T!Best, Best, T!Strength, Strength,
         T!HasCards, HasCards, T!Contenders, Contenders, T!Cardinality, Cardinality, T!Max, Max,
         T!SumFunctionOnSet, SumFunctionOnSet, T!FoldFunctionOnSet, FoldFunctionOnSet,
         T!MapThenFoldSet, MapThenFoldSet
<1>2. T!Best(t, rank, T!Contenders(t)) = Best(t, rank, Contenders(t))
  BY DEF T!Best, Best, T!Strength, Strength, T!HasCards, HasCards, T!Cardinality, Cardinality,
         T!Contenders, Contenders
<1> QED
  BY <1>1, <1>2 DEF T!EndGame, EndGame, T!ClearHand, ClearHand

LEMMA SameFold == \A t, p, rank : T!Fold(t, p, rank) = Fold(t, p, rank)
BY SameEndGame
   DEF T!Fold, Fold, T!CutFromRing, CutFromRing, T!MovePointers, MovePointers,
       T!MarkTurnStarted, MarkTurnStarted, T!Replace, Replace, T!IsRunning, IsRunning

LEMMA SameRebuild ==
  /\ \A t, order : T!Rebuild(t, order) = Rebuild(t, order)
  /\ \A t, S : T!Drop(t, S) = Drop(t, S)
BY DEF T!Rebuild, Rebuild, T!Cardinality, Cardinality, T!Drop, Drop

LEMMA SameRemove == \A t, p, order, rank : T!Remove(t, p, order, rank) = Remove(t, p, order, rank)
BY SameFold, SameRebuild DEF T!Remove, Remove

LEMMA SameAdvanceTurn ==
  ASSUME NEW t, NEW rank
  PROVE  T!AdvanceTurn(t, rank) = AdvanceTurn(t, rank)
<1>1. T!NextBettingNode(t, t.turn) = NextBettingNode(t, t.turn)
  BY DEF T!NextBettingNode, NextBettingNode, T!CanBet, CanBet, T!Ring, Ring,
         T!Distance, Distance, T!Cardinality, Cardinality, T!Min, Min
<1>2. \A u : /\ T!NextRound(u, rank) = NextRound(u, rank)
             /\ T!FinishRemainingRounds(u, rank) = FinishRemainingRounds(u, rank)
  BY SameEndGame
     DEF T!NextRound, NextRound, T!FinishRemainingRounds, FinishRemainingRounds,
         T!EndRound, EndRound
<1>3. \A u : /\ T!MarkTurnStarted(u) = MarkTurnStarted(u) /\ T!Ring(u) = Ring(u)
             /\ \A p : T!CanBet(u, p) = CanBet(u, p)
  BY DEF T!MarkTurnStarted, MarkTurnStarted, T!IsRunning, IsRunning, T!Ring, Ring,
         T!CanBet, CanBet
<1> QED
  BY <1>1, <1>2, <1>3 DEF T!AdvanceTurn, AdvanceTurn

LEMMA SameExpireTurn ==
  \A t, order, rank : T!ExpireTurn(t, order, rank) = ExpireTurn(t, order, rank)
BY SameRemove, SameAdvanceTurn DEF T!ExpireTurn, ExpireTurn

LEMMA SameStartGame ==
  ASSUME NEW t, NEW order
  PROVE  T!StartGame(t, order) = StartGame(t, order)
<1>1. \A u : T!Ante(u) = Ante(u)
  BY DEF T!Ante, Ante, T!Owed, Owed, T!Underflows, Underflows, T!SumFunctionOnSet,
         SumFunctionOnSet, T!FoldFunctionOnSet, FoldFunctionOnSet, T!MapThenFoldSet, MapThenFoldSet
<1>2. \A u : T!MarkTurnStarted(u) = MarkTurnStarted(u)
  BY DEF T!MarkTurnStarted, MarkTurnStarted, T!IsRunning, IsRunning
<1>3. \A u : T!Deal(u) = Deal(u)
  BY <1>1, <1>2, SameBets DEF T!Deal, Deal, T!IsAnte, IsAnte
<1> QED
  BY <1>3, SameRebuild DEF T!StartGame, StartGame

LEMMA SameSeating ==
  /\ \A t, p, chips : T!AddPlayer(t, p, chips) = AddPlayer(t, p, chips)
  /\ \A t, p : T!KeepPlaying(t, p) = KeepPlaying(t, p)
  /\ \A t, order : T!RemoveUnconfirmed(t, order) = RemoveUnconfirmed(t, order)
<1>1. \A t, p, chips : T!AddPlayer(t, p, chips) = AddPlayer(t, p, chips)
  BY DEF T!AddPlayer, AddPlayer, T!LinkNode, LinkNode, T!Cardinality, Cardinality
<1>2. \A t, p : T!KeepPlaying(t, p) = KeepPlaying(t, p)
  BY DEF T!KeepPlaying, KeepPlaying
<1>3. \A t, order : T!RemoveUnconfirmed(t, order) = RemoveUnconfirmed(t, order)
  BY SameRebuild DEF T!RemoveUnconfirmed, RemoveUnconfirmed
<1> QED
  BY <1>1, <1>2, <1>3

\* A bet is a call of Table's Bet, or of nothing: a player who left since the
\* turn check has no node to bet from.
LEMMA ActIsCall ==
  ASSUME WebInv, NEW r \in Threads, Act(r)
  PROVE  T!Next \/ UNCHANGED table
<1> DEFINE p == req[r].player
           command == req[r].command
<1>1. p \in Ids /\ command \in Commands
  BY DEF WebInv, TypeOK, RequestOK, Act
<1>2. command.verb = "RAISE" => command.amount \in Amounts
  BY <1>1 DEF Commands
<1> HIDE DEF p, command
<1>3. CASE p \notin table.players
  BY <1>3 DEF Act, p, Raise, AllIn, Check, Fold
<1>4. CASE p \in table.players
  <2>1. Available
    BY DEF Act
  <2>2. CASE command.verb = "RAISE"
    <3>1. table' = Raise(table, p, command.amount)
      BY <2>2 DEF Act, p, command
    <3>2. T!Bet(p)
      BY <1>2, <1>4, <2>1, <2>2, <3>1, SameBets DEF T!Bet, T!Available, Available
    <3> QED
      BY <1>1, <3>2 DEF T!Next
  <2>3. CASE command.verb \in {"ALL_IN", "CHECK"}
    <3>1. table' = AllIn(table, p) \/ table' = Check(table, p)
      BY <2>3 DEF Act, p, command
    <3>2. T!Bet(p)
      BY <1>4, <2>1, <3>1, SameBets DEF T!Bet, T!Available, Available
    <3> QED
      BY <1>1, <3>2 DEF T!Next
  <2>4. CASE command.verb = "FOLD"
    <3>1. \E rank \in Ranks[Contenders(table)] : table' = Fold(table, p, rank)
      BY <2>4 DEF Act, p, command
    <3>2. T!FoldHand(p)
      BY <1>4, <2>1, <3>1, SameFold, SameChoices, SameReadings
         DEF T!FoldHand, T!Available, Available
    <3> QED
      BY <1>1, <3>2 DEF T!Next
  <2> QED
    BY <2>2, <2>3, <2>4 DEF Act, command
<1> QED
  BY <1>3, <1>4

\* So is an advance_turn that comes when a hand is on; later it does nothing.
LEMMA AdvanceIsCall ==
  ASSUME Available, NEW rank \in Ranks[Contenders(table)], table' = AdvanceTurn(table, rank)
  PROVE  T!Next \/ UNCHANGED table
<1>1. CASE IsRunning(table)
  <2>1. T!Advance
    BY <1>1, SameAdvanceTurn, SameChoices, SameReadings DEF T!Advance, T!Available, Available
  <2> QED
    BY <2>1 DEF T!Next
<1>2. CASE ~IsRunning(table)
  BY <1>2 DEF AdvanceTurn, IsRunning
<1> QED
  BY <1>1, <1>2

\* The monitor's critical sections are calls as well.
LEMMA MonitorIsCall ==
  ASSUME Monitor
  PROVE  T!Next \/ UNCHANGED table
<1>1. CASE MonitorExpire
  <2>1. UNCHANGED table \/ T!Expire
    BY <1>1, SameExpireTurn, SameChoices, SameReadings
       DEF MonitorExpire, Transition, Available, T!Expire, T!Available
  <2> QED
    BY <2>1 DEF T!Next
<1>2. CASE MonitorPurge
  <2>1. CASE table.showdown = None
    BY <1>2, <2>1 DEF MonitorPurge, RemoveUnconfirmed
  <2>2. CASE table.showdown # None
    <3>1. T!Purge
      BY <1>2, <2>2, SameSeating, SameChoices
         DEF MonitorPurge, Transition, Available, T!Purge, T!Available
    <3> QED
      BY <3>1 DEF T!Next
  <2> QED
    BY <2>1, <2>2
<1>3. CASE MonitorStart
  <2>1. UNCHANGED table \/ T!Start
    BY <1>3, SameStartGame, SameChoices, SameReadings
       DEF MonitorStart, EnoughToStart, Transition, Available, T!Start, T!Available
  <2> QED
    BY <2>1 DEF T!Next
<1>4. CASE MonitorCount \/ MonitorShowdown
  BY <1>4 DEF MonitorCount, MonitorShowdown
<1> QED
  BY <1>1, <1>2, <1>3, <1>4 DEF Monitor

\* Each critical section is one call of Table, or leaves the table alone.
LEMMA StepIsCall ==
  ASSUME WebInv, [Next]_vars
  PROVE  [T!Next]_table
<1>1. ASSUME NEW r \in Threads, NEW p \in Ids, Join(r, p)
      PROVE  T!Next
  <2>1. T!Join(p)
    BY <1>1, SameSeating, SameReadings DEF Join, Available, T!Join, T!Available
  <2> QED
    BY <2>1 DEF T!Next
<1>2. ASSUME NEW r \in Threads, NEW p \in Ids, Leave(r, p)
      PROVE  T!Next
  <2>1. T!Leave(p)
    BY <1>2, SameRemove, SameChoices, SameReadings DEF Leave, Available, T!Leave, T!Available
  <2> QED
    BY <2>1 DEF T!Next
<1>3. ASSUME NEW r \in Threads, NEW p \in Ids, Confirm(r, p)
      PROVE  T!Next
  <2>1. T!Confirm(p)
    BY <1>3, SameSeating DEF Confirm, Available, T!Confirm, T!Available
  <2> QED
    BY <2>1 DEF T!Next
<1>4. ASSUME NEW r \in Threads, NEW command \in Commands, Gate(r, command)
      PROVE  UNCHANGED table
  BY <1>4 DEF Gate
<1>5. ASSUME NEW r \in Threads, GameAction(r)
      PROVE  T!Next \/ UNCHANGED table
  BY <1>5, AdvanceIsCall DEF GameAction
<1>6. ASSUME NEW r \in Threads, Advance(r)
      PROVE  T!Next \/ UNCHANGED table
  BY <1>6, AdvanceIsCall DEF Advance
<1>7. CASE Tick
  <2>1. T!Tick
    BY <1>7 DEF Tick, Available, T!Tick, T!Available
  <2> QED
    BY <2>1 DEF T!Next
<1>8. CASE UNCHANGED vars
  BY <1>8 DEF vars
<1> QED
  BY <1>1, <1>2, <1>3, <1>4, <1>5, <1>6, <1>7, <1>8, ActIsCall, MonitorIsCall DEF Next, Request

\* WebTable's ImplementsTable: however the critical sections of the requests and
\* the monitor interleave, the table goes through calls of module Table, each with
\* the guard it has there, so that what is proved of a Table holds of the web's.
THEOREM WebImplementsTable == Spec => ImplementsTable
<1>1. Init => T!Init
  BY SameReadings DEF Init, T!Init
<1>2. WebInv /\ [Next]_vars => [T!Next]_table
  BY StepIsCall
<1> QED
  BY <1>1, <1>2, WebTableSound, PTL DEF Spec, ImplementsTable, T!Spec

-----------------------------------------------------------------------------
(* One request at a time.                                                   *)

\* Who is not at the table has no bet on it; while a hand is on, the bettor is
\* in it; and when it is over nothing is left of it.
Tidy(t) ==
  /\ \A p \in Ids \ t.players : t.pbet[p] = 0
  /\ IsRunning(t) => t.bettor \in Ring(t)
  /\ ~IsRunning(t) => t.pot = 0 /\ t.bettor = None /\ \A p \in Ids : t.pbet[p] = 0

LEMMA SameTidy ==
  ASSUME NEW t, Tidy(t), NEW u, u.players = t.players, u.pbet = t.pbet, u.pot = t.pot,
         u.next = t.next, u.turn = t.turn, u.bettor = t.bettor
  PROVE  Tidy(u)
BY DEF Tidy, IsRunning, Ring

LEMMA EndGameTidy ==
  ASSUME NEW t \in TableType, NEW C \in SUBSET Ids, NEW rank \in Ranks[C],
         Contenders(t) \subseteq C, Contenders(t) # {}
  PROVE  Tidy(EndGame(t, rank))
<1>1. Best(t, rank, Contenders(t)) # None
  BY BestChosen, IdsAssumption
<1> QED
  BY <1>1, EndGameFields DEF Tidy, IsRunning

LEMMA FoldTidy ==
  ASSUME NEW t, Sound(t), Tidy(t), NEW p \in t.players, NEW rank \in Ranks[Contenders(t)]
  PROVE  Tidy(Fold(t, p, rank))
<1> DEFINE f == Folded(t, p)
           before == t.prev[p]
<1>1. /\ p \in Ids /\ p \notin {before, t.next[p]}
      /\ f \in TableType
      /\ Ring(f) = Ring(t) \ {p}
      /\ Contenders(f) = Contenders(t) \ {p}
      /\ IsRunning(f) <=> IsRunning(t)
      /\ p \in Ring(t) <=> before # None
      /\ before # None => before \in Ring(f)
  BY FoldedRing
<1>2. t \in TableType /\ Contenders(t) \in SUBSET Ids /\ None \notin Ids
  BY ContendersSubset, IdsAssumption DEF Sound
<1>3. /\ f.players = t.players /\ f.pbet = t.pbet /\ f.pot = t.pot
      /\ f.bettor = Replace(t.bettor, p, before)
  <2>1. t \in TableType /\ p \in Ids
    BY <1>1, <1>2
  <2> QED
    BY <2>1, FoldedFields
<1>4. Fold(t, p, rank) = IF before # None /\ before = t.next[p] THEN EndGame(f, rank) ELSE f
  BY <1>1 DEF Fold, Folded
<1> HIDE DEF f
<1>5. before # None => Tidy(EndGame(f, rank))
  <2>1. before # None => before \in Contenders(f)
    BY <1>1, RingSeated
  <2> QED
    BY <1>1, <1>2, <2>1, EndGameTidy
<1>6. Tidy(f)
  <2>1. IsRunning(f) => f.bettor \in Ring(f)
    BY <1>1, <1>3 DEF Tidy, Replace
  <2>2. ~IsRunning(f) => f.bettor = None
    BY <1>1, <1>2, <1>3 DEF Tidy, Replace
  <2> QED
    BY <1>1, <1>3, <2>1, <2>2 DEF Tidy
<1> QED
  BY <1>4, <1>5, <1>6

LEMMA DropTidy ==
  ASSUME NEW t \in TableType, Tidy(t), NEW S \in SUBSET Ids
  PROVE  Tidy(Drop(t, S))
<1>1. /\ Drop(t, S).players = t.players \ S /\ Drop(t, S).next = t.next
      /\ Drop(t, S).bettor = t.bettor /\ Drop(t, S).turn = t.turn
  BY DropFields
<1>2. /\ Drop(t, S).pot = t.pot
      /\ \A p \in Ids : Drop(t, S).pbet[p] = IF p \in S THEN 0 ELSE t.pbet[p]
  BY DEF Drop, TableType
<1> QED
  BY <1>1, <1>2 DEF Tidy, IsRunning, Ring

LEMMA RebuildTidy ==
  ASSUME NEW t \in TableType, Tidy(t), NEW order \in Orders[t.players]
  PROVE  Tidy(Rebuild(t, order))
<1>1. CASE t.players = {}
  <2>1. /\ Rebuild(t, order).players = {} /\ Rebuild(t, order).pbet = t.pbet
        /\ Rebuild(t, order).pot = 0 /\ Rebuild(t, order).turn = None
        /\ Rebuild(t, order).bettor = None
    BY <1>1 DEF Rebuild, TableType
  <2> QED
    BY <1>1, <2>1 DEF Tidy, IsRunning
<1>2. CASE t.players # {}
  BY <1>2, RebuildFields, SameTidy
<1> QED
  BY <1>1, <1>2

LEMMA RemoveTidy ==
  ASSUME NEW t, Sound(t), Tidy(t), t.health = "ok", NEW p \in t.players,
         NEW rank \in Ranks[Contenders(t)], NEW order \in Orders[t.players \ {p}]
  PROVE  Tidy(Remove(t, p, order, rank))
<1> DEFINE out   == Fold(t, p, rank)
           head  == IF out.head # p THEN out.head
                    ELSE IF out.nextf[p] = p THEN None ELSE out.nextf[p]
           moved == [out EXCEPT !.head = head]
           left  == Drop(moved, {p})
<1>1. /\ out \in TableType /\ Tidy(out) /\ out.health = "ok" /\ out.players = t.players
      /\ {p} \in SUBSET Ids
  BY FoldSound, FoldTidy DEF Sound, TableType
<1>2. Remove(t, p, order, rank) = Rebuild(left, order)
  BY <1>1 DEF Remove, out, moved, left
<1> HIDE DEF out
<1>3. /\ moved \in TableType /\ moved.players = t.players /\ moved.pbet = out.pbet
      /\ moved.pot = out.pot /\ moved.next = out.next /\ moved.turn = out.turn
      /\ moved.bettor = out.bettor
  BY <1>1 DEF TableType, Pointer
<1> HIDE DEF moved
<1>4. Tidy(moved)
  BY <1>1, <1>3, SameTidy
<1>5. left \in TableType /\ Tidy(left)
  BY <1>1, <1>3, <1>4, DropType, DropTidy
<1>6. left.players = t.players \ {p}
  BY <1>3 DEF Drop, TableType
<1> HIDE DEF left
<1> QED
  BY <1>2, <1>5, <1>6, RebuildTidy

LEMMA AdvanceTurnTidy ==
  ASSUME NEW t, Sound(t), Tidy(t), NEW C \in SUBSET Ids, NEW rank \in Ranks[C],
         Contenders(t) \subseteq C
  PROVE  Tidy(AdvanceTurn(t, rank))
<1> DEFINE u == AdvanceTurn(t, rank)
<1>1. \/ u = t
      \/ SameHand(t, u)
      \/ \E v \in TableType : SameHand(t, v) /\ u = EndGame(v, rank)
  BY AdvanceTurnCases
<1>2. ASSUME NEW v, SameHand(t, v)
      PROVE  Tidy(v) /\ Contenders(v) = Contenders(t) /\ Contenders(t) # {}
  <2>1. IsRunning(t) /\ v.turn # None /\ v.turn \in Ring(t)
    BY <1>2, IdsAssumption DEF SameHand, Sound, TurnOnRing, Ring
  <2>2. Ring(v) = Ring(t) /\ Contenders(v) = Contenders(t)
    BY <1>2 DEF SameHand, Ring, Contenders
  <2> QED
    BY <1>2, <2>1, <2>2, RingSeated DEF SameHand, Tidy, IsRunning
<1> HIDE DEF u
<1>3. Tidy(u)
  BY <1>1, <1>2, EndGameTidy
<1> QED
  BY <1>3 DEF u

LEMMA ExpireTurnTidy ==
  ASSUME NEW t, Sound(t), Tidy(t), t.health = "ok", IsRunning(t),
         NEW rank \in Ranks[Contenders(t)], NEW order \in Orders[t.players \ {t.turn}]
  PROVE  Tidy(ExpireTurn(t, order, rank))
<1> DEFINE r == Remove(t, t.turn, order, rank)
<1>1. t.turn \in t.players /\ t.turn \in Ids /\ t \in TableType
  BY RingSeated DEF Sound, TableType
<1>2. Sound(r) /\ Tidy(r) /\ Contenders(r) \subseteq Contenders(t)
      /\ Contenders(t) \in SUBSET Ids
  BY <1>1, RemoveSound, RemoveTidy, ContendersRemove, ContendersSubset
<1> HIDE DEF r
<1>3. Tidy(AdvanceTurn(r, rank))
  BY <1>2, AdvanceTurnTidy
<1> QED
  BY <1>2, <1>3 DEF ExpireTurn, r

\* A bet of the player whose turn it is, or of nobody at the table.
LEMMA BetTidy ==
  ASSUME NEW t, Sound(t), Tidy(t), NEW p \in Ids, p \in t.players => t.turn = p,
         NEW u \in TableType,
         u.players = t.players, u.next = t.next, u.turn = t.turn,
         u.bettor \in {t.bettor, p},
         \A q \in Ids \ {p} : u.pbet[q] = t.pbet[q],
         p \notin t.players => u = t
  PROVE  Tidy(u)
<1>1. CASE p \notin t.players
  BY <1>1
<1>2. CASE p \in t.players
  <2>1. IsRunning(t) /\ t.turn \in Ring(t) /\ Ring(u) = Ring(t) /\ IsRunning(u)
    BY <1>2, IdsAssumption DEF IsRunning, Sound, TurnOnRing, Ring
  <2> QED
    BY <1>2, <2>1 DEF Tidy
<1> QED
  BY <1>1, <1>2

LEMMA RaiseTidy ==
  ASSUME NEW t, Sound(t), Tidy(t), NEW p \in Ids, p \in t.players => t.turn = p,
         NEW amount \in Nat
  PROVE  Tidy(Raise(t, p, amount))
<1> DEFINE u == Raise(t, p, amount)
<1>1. t \in TableType /\ u \in TableType /\ (p \notin t.players => u = t)
  BY RaiseType DEF Sound, Raise
<1>2. /\ u.players = t.players /\ u.next = t.next /\ u.turn = t.turn
      /\ u.bettor \in {t.bettor, p}
  BY <1>1 DEF Raise, TableType
<1>3. \A q \in Ids \ {p} : u.pbet[q] = t.pbet[q]
  BY <1>1 DEF Raise, TableType
<1> HIDE DEF u
<1>4. Tidy(u)
  BY <1>1, <1>2, <1>3, BetTidy
<1> QED
  BY <1>4 DEF u

LEMMA AllInTidy ==
  ASSUME NEW t, Sound(t), Tidy(t), NEW p \in Ids, p \in t.players => t.turn = p
  PROVE  Tidy(AllIn(t, p))
<1> DEFINE u == AllIn(t, p)
<1>1. t \in TableType /\ u \in TableType /\ (p \notin t.players => u = t)
  BY AllInType DEF Sound, AllIn
<1>2. /\ u.players = t.players /\ u.next = t.next /\ u.turn = t.turn
      /\ u.bettor \in {t.bettor, p}
  BY <1>1 DEF AllIn, TableType
<1>3. \A q \in Ids \ {p} : u.pbet[q] = t.pbet[q]
  BY <1>1 DEF AllIn, TableType
<1> HIDE DEF u
<1>4. Tidy(u)
  BY <1>1, <1>2, <1>3, BetTidy
<1> QED
  BY <1>4 DEF u

LEMMA CheckTidy ==
  ASSUME NEW t, Sound(t), Tidy(t), NEW p \in Ids, p \in t.players => t.turn = p
  PROVE  Tidy(Check(t, p))
<1> DEFINE u == Check(t, p)
<1>1. t \in TableType /\ u \in TableType /\ (p \notin t.players => u = t)
  BY CheckType DEF Sound, Check
<1>2. /\ u.players = t.players /\ u.next = t.next /\ u.turn = t.turn
      /\ u.bettor \in {t.bettor, p}
  BY <1>1 DEF Check, TableType
<1>3. \A q \in Ids \ {p} : u.pbet[q] = t.pbet[q]
  BY <1>1 DEF Check, TableType
<1> HIDE DEF u
<1>4. Tidy(u)
  BY <1>1, <1>2, <1>3, BetTidy
<1> QED
  BY <1>4 DEF u

LEMMA AddPlayerTidy ==
  ASSUME NEW t, Sound(t), Tidy(t), NEW p \in Ids, NEW chips \in Nat
  PROVE  Tidy(AddPlayer(t, p, chips))
<1> DEFINE u == AddPlayer(t, p, chips)
<1>1. t \in TableType
  BY DEF Sound
<1>2. /\ u.players \in {t.players, t.players \cup {p}} /\ u.pbet = t.pbet /\ u.pot = t.pot
      /\ u.next = t.next /\ u.turn = t.turn /\ u.bettor = t.bettor
  BY <1>1 DEF AddPlayer, LinkNode, TableType
<1> HIDE DEF u
<1>3. Tidy(u)
  BY <1>2 DEF Tidy, IsRunning, Ring
<1> QED
  BY <1>3 DEF u

LEMMA KeepPlayingTidy ==
  ASSUME NEW t, Sound(t), Tidy(t), NEW p
  PROVE  Tidy(KeepPlaying(t, p))
<1> DEFINE u == KeepPlaying(t, p)
<1>1. /\ u.players = t.players /\ u.pbet = t.pbet /\ u.pot = t.pot
      /\ u.next = t.next /\ u.turn = t.turn /\ u.bettor = t.bettor
  BY DEF Sound, KeepPlaying, TableType
<1> QED
  BY <1>1, SameTidy

LEMMA StartGameTidy ==
  ASSUME NEW t, Sound(t), Tidy(t), t.players # {}, NEW order \in Orders[t.players]
  PROVE  Tidy(StartGame(t, order))
<1> DEFINE s == Rebuild(t, order)
           d == Deal(s)
<1>1. t \in TableType /\ t.players \subseteq Ids /\ None \notin Ids
  BY IdsAssumption DEF Sound, TableType
<1>2. s \in TableType /\ s.players = t.players /\ s.blind \in t.players
  BY <1>1, RebuildType, RebuildFields
<1>3. SeatLinks(s)
  BY <1>1, RebuildLinks
<1>4. StartGame(t, order) = d
  BY DEF StartGame
<1> HIDE DEF s
<1>5. /\ d.players = t.players /\ d.next = s.nextf /\ d.bettor = s.blind
      /\ d.turn \in {s.blind, s.nextf[s.blind]}
  BY <1>2, DealFields
<1>6. \A p \in Ids \ t.players : d.pbet[p] = t.pbet[p]
  BY <1>4, StartGameWallets
<1> HIDE DEF d
<1>7. s.nextf[s.blind] \in t.players
  BY <1>2, <1>3 DEF SeatLinks
<1>8. IsRunning(d) /\ d.bettor \in Ring(d)
  BY <1>1, <1>2, <1>5, <1>7 DEF IsRunning, Ring
<1>9. Tidy(d)
  BY <1>5, <1>6, <1>8 DEF Tidy
<1> QED
  BY <1>4, <1>9

LEMMA RemoveUnconfirmedTidy ==
  ASSUME NEW t, Sound(t), Tidy(t), NEW order \in Orders[t.confirmed \cap t.players]
  PROVE  Tidy(RemoveUnconfirmed(t, order))
<1> DEFINE out == t.players \ t.confirmed
           Clear(pointer) == IF pointer \in out THEN None ELSE pointer
           cleared == [t EXCEPT !.head = Clear(@), !.bettor = Clear(@), !.blind = Clear(@),
                                !.clock = "off"]
           left == Drop(cleared, out)
<1>1. CASE t.showdown = None \/ out = {}
  BY <1>1 DEF RemoveUnconfirmed
<1>2. CASE t.showdown # None /\ out # {}
  <2>1. t \in TableType /\ ~IsRunning(t) /\ t.bettor = None
    BY <1>2 DEF Sound, HandOpen, Tidy
  <2>2. Clear(t.head) \in Pointer /\ Clear(t.blind) \in Pointer /\ Clear(t.bettor) = None
    BY <2>1 DEF TableType, Pointer
  <2>3. out \in SUBSET Ids /\ t.players \ out = t.confirmed \cap t.players
    BY <2>1 DEF TableType
  <2>4. RemoveUnconfirmed(t, order) = Rebuild(left, order)
    BY <1>2, Zenon DEF RemoveUnconfirmed, left, cleared, out, Clear
  <2> HIDE DEF out, Clear
  <2>5. /\ cleared \in TableType /\ cleared.players = t.players /\ cleared.pbet = t.pbet
        /\ cleared.pot = t.pot /\ cleared.next = t.next /\ cleared.turn = t.turn
        /\ cleared.bettor = t.bettor
    BY <2>1, <2>2 DEF TableType, Pointer
  <2> HIDE DEF cleared
  <2>6. Tidy(cleared)
    BY <2>5, SameTidy
  <2>7. left \in TableType /\ Tidy(left)
    BY <2>3, <2>5, <2>6, DropType, DropTidy
  <2>8. left.players = t.confirmed \cap t.players
    BY <2>3, <2>5 DEF Drop, TableType
  <2> HIDE DEF left
  <2> QED
    BY <2>4, <2>7, <2>8, RebuildTidy
<1> QED
  BY <1>1, <1>2

\* Nobody seats the late player again before the next request.
LEMMA ExpireTurnPlayers ==
  ASSUME NEW t, Sound(t), t.health = "ok", IsRunning(t),
         NEW rank \in Ranks[Contenders(t)], NEW order \in Orders[t.players \ {t.turn}]
  PROVE  ExpireTurn(t, order, rank).players = t.players \ {t.turn}
<1> DEFINE r == Remove(t, t.turn, order, rank)
<1>1. t.turn \in t.players
  BY RingSeated
<1>2. Sound(r) /\ r.players = t.players \ {t.turn}
  BY <1>1, RemoveSound, RemoveFields
<1> HIDE DEF r
<1>3. \A v \in TableType : EndGame(v, rank).players = v.players
  <2> SUFFICES ASSUME NEW v \in TableType
               PROVE  EndGame(v, rank).players = v.players
    OBVIOUS
  <2>1. CASE Best(v, rank, Contenders(v)) = None
    BY <2>1 DEF EndGame
  <2>2. CASE Best(v, rank, Contenders(v)) # None
    BY <2>2, EndGameFields
  <2> QED
    BY <2>1, <2>2
<1>4. AdvanceTurn(r, rank).players = r.players
  <2> DEFINE u == AdvanceTurn(r, rank)
  <2>1. \/ u = r
        \/ SameHand(r, u)
        \/ \E v \in TableType : SameHand(r, v) /\ u = EndGame(v, rank)
    BY <1>2, AdvanceTurnCases
  <2> HIDE DEF u
  <2>2. u.players = r.players
    BY <1>3, <2>1 DEF SameHand
  <2> QED
    BY <2>2 DEF u
<1> QED
  BY <1>2, <1>4 DEF ExpireTurn, r

\* The server works on one request at a time.
OneAtATime == \A r, s \in Threads : r = s

\* Between the turn check and the bet only the monitor can take the turn away,
\* and it takes the player off the table.
InTurn ==
  \A r \in Threads : req[r].at \in {"game", "act"} /\ req[r].player \in table.players =>
    table.turn = req[r].player

SequentialInv == WebInv /\ InTurn /\ Tidy(table)

LEMMA InTurnStep ==
  ASSUME OneAtATime, SequentialInv, [Next]_vars
  PROVE  InTurn'
<1>1. Sound(table) /\ table \in TableType /\ table.players \subseteq Ids /\ None \notin Ids
      /\ \A r \in Threads : RequestOK(req[r]) /\ req[r] = req[r]
  BY IdsAssumption DEF SequentialInv, WebInv, Sound, TypeOK, TableType
<1>2. ASSUME \A r \in Threads : req'[r].at \notin {"game", "act"}
      PROVE  InTurn'
  BY <1>2 DEF InTurn
<1>3. ASSUME NEW r \in Threads, req[r] = Idle, UNCHANGED req
      PROVE  InTurn'
  BY <1>2, <1>3 DEF OneAtATime, Idle
<1>4. ASSUME NEW r \in Threads, NEW q, q.at \notin {"game", "act"}, req' = [req EXCEPT ![r] = q]
      PROVE  InTurn'
  BY <1>2, <1>4 DEF OneAtATime, SequentialInv, WebInv, TypeOK
<1>5. ASSUME UNCHANGED req, table'.players \subseteq table.players,
             table.turn \notin table'.players
      PROVE  InTurn'
  BY <1>1, <1>5 DEF InTurn, SequentialInv
<1>6. ASSUME UNCHANGED req, table'.players = table.players, table'.turn = table.turn
      PROVE  InTurn'
  BY <1>6 DEF InTurn, SequentialInv
<1>7. ASSUME NEW r \in Threads, NEW p \in Ids, Join(r, p) \/ Leave(r, p) \/ Confirm(r, p)
      PROVE  InTurn'
  BY <1>3, <1>7 DEF Join, Leave, Confirm
<1>8. ASSUME NEW r \in Threads, NEW command \in Commands, Gate(r, command)
      PROVE  InTurn'
  <2>1. /\ table' = table
        /\ req' = [req EXCEPT ![r] = [at |-> "game", player |-> table.turn,
                                      command |-> command]]
    BY <1>8 DEF Gate
  <2>2. \A s \in Threads : req'[s].player = table.turn
    BY <2>1 DEF OneAtATime, SequentialInv, WebInv, TypeOK
  <2> QED
    BY <2>1, <2>2 DEF InTurn
<1>9. ASSUME NEW r \in Threads, GameAction(r)
      PROVE  InTurn'
  <2>1. Idle.at \notin {"game", "act"}
    BY DEF Idle
  <2>2. CASE req' = [req EXCEPT ![r] = Idle]
    BY <1>4, <2>1, <2>2
  <2>3. CASE req' = [req EXCEPT ![r].at = "act"] /\ UNCHANGED table
    <3>1. req[r].at = "game"
      BY <1>9 DEF GameAction
    <3>2. \A s \in Threads : req[s].at = "game" /\ req'[s].player = req[s].player
      BY <2>3, <3>1 DEF OneAtATime, SequentialInv, WebInv, TypeOK, Requests
    <3> QED
      BY <2>3, <3>2 DEF InTurn, SequentialInv
  <2> QED
    BY <1>9, <2>2, <2>3 DEF GameAction
<1>10. ASSUME NEW r \in Threads, Act(r) \/ Advance(r)
       PROVE  InTurn'
  <2>1. Idle.at \notin {"game", "act"} /\ [Idle EXCEPT !.at = "advance"].at \notin {"game", "act"}
    BY DEF Idle
  <2>2. \/ req' = [req EXCEPT ![r] = [Idle EXCEPT !.at = "advance"]]
        \/ req' = [req EXCEPT ![r] = Idle]
    BY <1>10 DEF Act, Advance, Answer
  <2> QED
    BY <1>4, <2>1, <2>2
<1>11. CASE MonitorExpire
  <2>1. UNCHANGED req
    BY <1>11 DEF MonitorExpire, Transition
  <2>2. CASE UNCHANGED table
    BY <1>6, <2>1, <2>2
  <2>3. CASE table.showdown = None /\ table.clock = "expired"
    <3>1. IsRunning(table) /\ table.health = "ok"
      BY <1>1, <1>11, <2>3 DEF Sound, TurnOnRing, MonitorExpire, Transition, Available
    <3>2. table'.players = table.players \ {table.turn}
      BY <1>1, <1>11, <2>3, <3>1, ExpireTurnPlayers DEF MonitorExpire
    <3> QED
      BY <1>5, <2>1, <3>2
  <2> QED
    BY <1>11, <2>2, <2>3 DEF MonitorExpire
<1>12. ASSUME ~IsRunning(table)
       PROVE  table.turn \notin Ids
  BY <1>1, <1>12 DEF IsRunning
<1>13. CASE MonitorPurge
  <2>1. UNCHANGED req /\ table'.players \subseteq table.players
    BY <1>1, <1>13, RemoveUnconfirmedWallets DEF MonitorPurge, Transition
  <2>2. CASE table.showdown # None
    <3>1. table.turn \notin Ids
      BY <1>1, <1>12, <2>2 DEF Sound, HandOpen
    <3> QED
      BY <1>1, <1>5, <2>1, <3>1
  <2>3. CASE table.showdown = None
    BY <1>6, <1>13, <2>1, <2>3 DEF MonitorPurge, RemoveUnconfirmed
  <2> QED
    BY <2>2, <2>3
<1>14. CASE MonitorStart
  <2>1. UNCHANGED req
    BY <1>14 DEF MonitorStart, Transition
  <2>2. CASE UNCHANGED table
    BY <1>6, <2>1, <2>2
  <2>3. ASSUME EnoughToStart, NEW order \in Orders[table.players],
               table' = StartGame(table, order)
        PROVE  InTurn'
    <3>1. ~IsRunning(table) /\ table.players # {}
      BY <2>3, FS_EmptySet DEF EnoughToStart
    <3> DEFINE s == Rebuild(table, order)
    <3>2. s \in TableType /\ s.blind \in s.players /\ s.players = table.players
      BY <1>1, <3>1, RebuildType, RebuildFields
    <3>3. table' = Deal(s)
      BY <2>3, <3>1 DEF StartGame
    <3> HIDE DEF s
    <3>4. table'.players = table.players
      BY <3>2, <3>3, DealFields
    <3> QED
      BY <1>1, <1>5, <1>12, <2>1, <3>1, <3>4
  <2> QED
    BY <1>14, <2>2, <2>3 DEF MonitorStart
<1>15. CASE Tick
  BY <1>1, <1>6, <1>15 DEF Tick, TableType
<1>16. CASE MonitorCount \/ MonitorShowdown
  BY <1>6, <1>16 DEF MonitorCount, MonitorShowdown, Transition
<1>17. CASE UNCHANGED vars
  BY <1>6, <1>17 DEF vars
<1> QED
  BY <1>7, <1>8, <1>9, <1>10, <1>11, <1>13, <1>14, <1>15, <1>16, <1>17 DEF Next, Request, Monitor

LEMMA TidyStep ==
  ASSUME OneAtATime, SequentialInv, [Next]_vars
  PROVE  Tidy(table')
<1>1. /\ Sound(table) /\ Tidy(table) /\ Contenders(table) \in SUBSET Ids
      /\ \A r \in Threads : RequestOK(req[r])
  BY ContendersSubset DEF SequentialInv, WebInv, TypeOK, Sound
<1>2. CASE UNCHANGED table
  BY <1>1, <1>2
<1>3. ASSUME NEW r \in Threads, NEW p \in Ids, Join(r, p)
      PROVE  Tidy(table')
  BY <1>1, <1>3, AddPlayerTidy, WebAssumption DEF Join
<1>4. ASSUME NEW r \in Threads, NEW p \in Ids, Leave(r, p)
      PROVE  Tidy(table')
  BY <1>1, <1>4, RemoveTidy DEF Leave, Available
<1>5. ASSUME NEW r \in Threads, NEW p \in Ids, Confirm(r, p)
      PROVE  Tidy(table')
  BY <1>1, <1>5, KeepPlayingTidy DEF Confirm
<1>6. ASSUME NEW r \in Threads, NEW command \in Commands, Gate(r, command)
      PROVE  Tidy(table')
  BY <1>1, <1>6 DEF Gate
<1>7. ASSUME NEW r \in Threads, GameAction(r)
      PROVE  Tidy(table')
  BY <1>1, <1>7, AdvanceTurnTidy DEF GameAction
<1>8. ASSUME NEW r \in Threads, Act(r)
      PROVE  Tidy(table')
  <2>1. req[r].player \in Ids /\ req[r].command.amount \in Nat
    BY <1>1, <1>8, CommandType DEF Act, RequestOK
  <2>2. req[r].player \in table.players => table.turn = req[r].player
    BY <1>8 DEF Act, SequentialInv, InTurn
  <2>3. \A rank : req[r].player \notin table.players => Fold(table, req[r].player, rank) = table
    BY DEF Fold
  <2>4. \A rank \in Ranks[Contenders(table)] : Tidy(Fold(table, req[r].player, rank))
    BY <1>1, <2>3, FoldTidy
  <2> QED
    BY <1>1, <1>8, <2>1, <2>2, <2>4, RaiseTidy, AllInTidy, CheckTidy DEF Act
<1>9. ASSUME NEW r \in Threads, Advance(r)
      PROVE  Tidy(table')
  BY <1>1, <1>9, AdvanceTurnTidy DEF Advance
<1>10. CASE MonitorExpire
  <2>1. ASSUME table.showdown = None, table.clock = "expired"
        PROVE  IsRunning(table)
    BY <1>1, <2>1 DEF Sound, TurnOnRing
  <2> QED
    BY <1>1, <1>10, <2>1, ExpireTurnTidy DEF MonitorExpire, Transition, Available
<1>11. CASE MonitorPurge
  BY <1>1, <1>11, RemoveUnconfirmedTidy DEF MonitorPurge
<1>12. CASE MonitorStart
  <2>1. EnoughToStart => table.players # {}
    BY FS_EmptySet DEF EnoughToStart
  <2> QED
    BY <1>1, <1>12, <2>1, StartGameTidy DEF MonitorStart
<1>13. CASE Tick
  BY <1>1, <1>13, SameTidy DEF Tick, Sound, TableType
<1>14. CASE MonitorCount \/ MonitorShowdown
  BY <1>2, <1>14 DEF MonitorCount, MonitorShowdown
<1>15. CASE UNCHANGED vars
  BY <1>2, <1>15 DEF vars
<1> QED
  BY <1>3, <1>4, <1>5, <1>6, <1>7, <1>8, <1>9, <1>10, <1>11, <1>12, <1>13, <1>14, <1>15
     DEF Next, Request, Monitor

\* What one request at a time makes true, next to the monitor thread.
THEOREM SequentialWeb ==
  ASSUME OneAtATime
  PROVE  Spec => []SequentialInv
<1>1. Init => SequentialInv
  <2> SUFFICES ASSUME Init PROVE SequentialInv
    OBVIOUS
  <2>1. InTurn
    BY DEF Init, InTurn, Idle
  <2>2. Tidy(NewTable)
    BY DEF Tidy, NewTable, IsRunning
  <2> QED
    BY <2>1, <2>2, WebInit DEF Init, SequentialInv
<1>2. SequentialInv /\ [Next]_vars => SequentialInv'
  <2> SUFFICES ASSUME SequentialInv, [Next]_vars PROVE SequentialInv'
    OBVIOUS
  <2>1. WebInv'
    BY SoundStep, TypeStep
       DEF SequentialInv, WebInv, Sound, RingLinks, TurnOnRing, OneCycle, PointersSeated,
           SeatLinks, HandOpen, IsRunning, Ring, Contenders
  <2>2. InTurn'
    BY InTurnStep
  <2>3. Tidy(table)'
    BY TidyStep DEF Tidy, IsRunning, Ring
  <2> QED
    BY <2>1, <2>2, <2>3 DEF SequentialInv
<1> QED
  BY <1>1, <1>2, PTL DEF Spec

\* The turn is checked under one lock and the bet taken under another: in
\* between, the monitor may remove the player, but never give the turn to
\* another while they sit at the table.
THEOREM BetsAreInTurn ==
  ASSUME OneAtATime
  PROVE  Spec => []ActsInTurn
<1>1. SequentialInv => ActsInTurn
  BY DEF SequentialInv, InTurn, ActsInTurn
<1> QED
  BY <1>1, SequentialWeb, PTL

\* A betting round can end: the player at whom it ends is met on the ring.
THEOREM BettorStaysInHand ==
  ASSUME OneAtATime
  PROVE  Spec => []BettorInHand
<1>1. SequentialInv => BettorInHand
  BY DEF SequentialInv, Tidy, BettorInHand
<1> QED
  BY <1>1, SequentialWeb, PTL

LEMMA CleanAtRest ==
  ASSUME NEW t, Sound(t), Tidy(t), ~IsRunning(t)
  PROVE  Bets(t) = 0 /\ t.pot = 0
<1>1. /\ t.players \subseteq Ids /\ IsFiniteSet(t.players) /\ t.pbet \in [Ids -> Nat]
      /\ \A p \in t.players : t.pbet[p] = 0
  BY IdsAssumption, FS_Subset DEF Sound, Tidy, TableType
<1>2. SumFunctionOnSet(t.pbet, t.players) = 0 * Cardinality(t.players)
  BY <1>1, SumConstant
<1>3. Bets(t) = 0
  BY <1>1, <1>2, FS_CardinalityType DEF Bets
<1> QED
  BY <1>3 DEF Tidy

\* However a hand ends, by a showdown, a fold, a leave or a timeout, the next
\* one starts from no bets, an empty pot and no bettor.
THEOREM HandsLeaveNothing ==
  ASSUME OneAtATime
  PROVE  Spec => []RestIsClean
<1>1. SequentialInv => RestIsClean
  BY CleanAtRest DEF SequentialInv, WebInv, RestIsClean, Tidy
<1> QED
  BY <1>1, SequentialWeb, PTL

-----------------------------------------------------------------------------
(* With one request at a time: chips come and go with the players only.     *)

\* The chips of u are those of t, with the wallets of who came and without the
\* wallets of who left; the pot covers the bets, and nothing can wrap around.
Balanced(t, u) ==
  /\ Within(u, MaxChips) /\ Bets(u) <= u.pot
  /\ Chips(u) = Chips(t) + Wallets(u, u.players \ t.players)
                         - Wallets(t, t.players \ u.players)

LEMMA StayBalanced ==
  ASSUME NEW t \in TableType, Within(t, MaxChips), NEW u, NoneCome(t, u), OthersStay(t, u)
  PROVE  Balanced(t, u)
<1>1. u.players \ t.players = {} /\ Within(u, MaxChips) /\ t.players \ u.players \in SUBSET Ids
  BY WebAssumption DEF NoneCome, TableType
<1>2. Wallets(u, {}) = 0 /\ Chips(t) \in Nat /\ Wallets(t, t.players \ u.players) \in Nat
  BY <1>1, SumEmpty, ChipsType DEF Wallets
<1> QED
  BY <1>1, <1>2 DEF OthersStay, Balanced

LEMMA SameBalanced ==
  ASSUME NEW t \in TableType, NEW u \in TableType, u.players = t.players,
         Chips(u) = Chips(t), Bets(u) <= u.pot, Within(u, MaxChips)
  PROVE  Balanced(t, u)
<1>1. u.players \ t.players = {} /\ t.players \ u.players = {}
  OBVIOUS
<1>2. Wallets(u, {}) = 0 /\ Wallets(t, {}) = 0 /\ Chips(t) \in Nat
  BY SumEmpty, ChipsType DEF Wallets
<1> QED
  BY <1>1, <1>2 DEF Balanced

LEMMA MadeBalanced ==
  ASSUME NEW t \in TableType, NEW u, BetsMade(t, u), Bets(t) <= t.pot, Within(u, MaxChips)
  PROVE  Balanced(t, u)
<1>1. u \in TableType /\ u.players = t.players /\ Chips(u) = Chips(t) /\ Bets(u) <= u.pot
  BY BetsMadeChips DEF BetsMade
<1> QED
  BY <1>1, SameBalanced

LEMMA AddPlayerBalanced ==
  ASSUME NEW t \in TableType, Within(t, MaxChips), Bets(t) <= t.pot,
         NEW p \in Ids, p \notin t.players, NEW chips \in Nat, Chips(t) + chips <= MaxChips
  PROVE  Balanced(t, AddPlayer(t, p, chips))
<1> DEFINE u == AddPlayer(t, p, chips)
<1>1. t.pbet[p] = 0 /\ MaxChips \in Nat
  BY WebAssumption DEF Within
<1>2. /\ u \in TableType
      /\ \/ u.players = t.players /\ BetsMade(t, u)
         \/ /\ u.players = t.players \cup {p}
            /\ Chips(u) = Chips(t) + chips /\ Wallets(u, {p}) = chips
      /\ Bets(u) = Bets(t) /\ u.pot = t.pot /\ u.bet = t.bet
      /\ \A q \in Ids \ {p} : u.wallet[q] = t.wallet[q] /\ u.pbet[q] = t.pbet[q]
  BY <1>1, AddPlayerChips
<1> HIDE DEF u
<1>3. ASSUME u.players = t.players, BetsMade(t, u)
      PROVE  Balanced(t, u)
  <2>1. Within(u, MaxChips)
    BY <1>1, <1>2, <1>3, BetsMadeWithin DEF Within
  <2> QED
    BY <1>3, <2>1, MadeBalanced
<1>4. ASSUME u.players = t.players \cup {p}, Chips(u) = Chips(t) + chips, Wallets(u, {p}) = chips
      PROVE  Balanced(t, u)
  <2>1. u.players \ t.players = {p} /\ t.players \ u.players = {} /\ p \notin Ids \ u.players
    BY <1>4
  <2>2. Within(u, MaxChips)
    BY <1>2, <1>4, <2>1 DEF Within
  <2>3. Wallets(t, {}) = 0 /\ Chips(t) \in Nat
    BY SumEmpty, ChipsType DEF Wallets
  <2>4. Wallets(u, u.players \ t.players) = chips /\ Wallets(t, t.players \ u.players) = 0
    BY <1>4, <2>1, <2>3
  <2> QED
    BY <1>2, <1>4, <2>2, <2>3, <2>4 DEF Balanced
<1> QED
  BY <1>2, <1>3, <1>4 DEF u

\* The bound on the chips keeps a check from wrapping around, and as the pot
\* covers the bets a showdown pays all of it.
ChipsInv == SequentialInv /\ Within(table, MaxChips) /\ Bets(table) <= table.pot

LEMMA BalancedStep ==
  ASSUME OneAtATime, ChipsInv, [Next]_vars
  PROVE  Balanced(table, table')
<1>1. /\ Sound(table) /\ Tidy(table) /\ Within(table, MaxChips) /\ Bets(table) <= table.pot
      /\ table \in TableType /\ Contenders(table) \in SUBSET Ids
      /\ MaxChips \in Nat /\ MaxChips < WordSize
      /\ \A r \in Threads : RequestOK(req[r])
  BY ContendersSubset, WebAssumption DEF ChipsInv, SequentialInv, WebInv, TypeOK, Sound
<1>2. CASE UNCHANGED table
  <2>1. BetsMade(table, table)
    BY <1>1, SameBetsMade
  <2>2. Balanced(table, table)
    BY <1>1, <2>1, MadeBalanced
  <2> QED
    BY <1>2, <2>2
<1>3. ASSUME NEW u, BetsMade(table, u), Within(u, MaxChips)
      PROVE  Balanced(table, u)
  BY <1>1, <1>3, MadeBalanced
<1>4. ASSUME NEW u, NoneCome(table, u), OthersStay(table, u)
      PROVE  Balanced(table, u)
  BY <1>1, <1>4, StayBalanced
<1>5. ASSUME NEW u, NoneCome(table, u), u.players = table.players,
             Bets(u) <= u.pot, Chips(u) = Chips(table)
      PROVE  Balanced(table, u)
  <2>1. u \in TableType /\ Within(u, MaxChips)
    BY <1>1, <1>5 DEF NoneCome
  <2> QED
    BY <1>1, <1>5, <2>1, SameBalanced
<1>6. ASSUME NEW p, table.players = {p}
      PROVE  ~IsRunning(table) /\ table.pot = 0
  <2>1. Ring(table) = {}
    <3>1. Ring(table) \subseteq {p}
      BY <1>1, <1>6, RingSeated
    <3>2. RingLinks(table)
      BY <1>1 DEF Sound
    <3> QED
      BY <3>1, <3>2 DEF RingLinks
  <2>2. ~IsRunning(table)
    BY <1>1, <2>1 DEF Sound, TurnOnRing
  <2> QED
    BY <1>1, <2>2 DEF Tidy
<1>7. ASSUME NEW r \in Threads, NEW p \in Ids, Join(r, p)
      PROVE  Balanced(table, table')
  BY <1>1, <1>7, AddPlayerBalanced, WebAssumption DEF Join
<1>8. ASSUME NEW r \in Threads, NEW p \in Ids, Leave(r, p)
      PROVE  Balanced(table, table')
  BY <1>1, <1>4, <1>6, <1>8, RemoveChips DEF Leave, Available
<1>9. ASSUME NEW r \in Threads, NEW p \in Ids, Confirm(r, p)
      PROVE  Balanced(table, table')
  <2>1. BetsMade(table, table') /\ NoneCome(table, table')
    BY <1>1, <1>9, KeepPlayingChips DEF Confirm
  <2> QED
    BY <1>1, <1>3, <2>1 DEF NoneCome
<1>10. ASSUME NEW r \in Threads, NEW command \in Commands, Gate(r, command)
       PROVE  Balanced(table, table')
  BY <1>2, <1>10 DEF Gate
<1>11. ASSUME NEW rank \in Ranks[Contenders(table)]
       PROVE  Balanced(table, AdvanceTurn(table, rank))
  BY <1>1, <1>5, AdvanceTurnChips
<1>12. ASSUME NEW r \in Threads, GameAction(r)
       PROVE  Balanced(table, table')
  BY <1>2, <1>11, <1>12 DEF GameAction
<1>13. ASSUME NEW r \in Threads, Act(r)
       PROVE  Balanced(table, table')
  <2> DEFINE p == req[r].player
             amount == req[r].command.amount
  <2>1. p \in Ids /\ amount \in Nat
    BY <1>1, <1>13, CommandType DEF Act, RequestOK
  <2> HIDE DEF p, amount
  <2>2. Balanced(table, Raise(table, p, amount))
    BY <1>1, <1>3, <2>1, RaiseChips
  <2>3. Balanced(table, AllIn(table, p))
    BY <1>1, <1>3, <2>1, AllInChips
  <2>4. Balanced(table, Check(table, p))
    BY <1>1, <1>3, <2>1, CheckChips
  <2>5. ASSUME NEW rank \in Ranks[Contenders(table)]
        PROVE  Balanced(table, Fold(table, p, rank))
    <3>1. CASE p \in table.players
      BY <1>1, <1>5, <3>1, FoldChips
    <3>2. CASE p \notin table.players
      <4>1. BetsMade(table, table)
        BY <1>1, SameBetsMade
      <4> QED
        BY <1>1, <1>3, <3>2, <4>1 DEF Fold
    <3> QED
      BY <3>1, <3>2
  <2> QED
    BY <1>13, <2>2, <2>3, <2>4, <2>5 DEF Act, p, amount
<1>14. ASSUME NEW r \in Threads, Advance(r)
       PROVE  Balanced(table, table')
  BY <1>11, <1>14 DEF Advance
<1>15. CASE MonitorExpire
  <2>1. ASSUME table.showdown = None, table.clock = "expired"
        PROVE  IsRunning(table)
    BY <1>1, <2>1 DEF Sound, TurnOnRing
  <2>2. IsRunning(table) => table.players # {table.turn}
    BY <1>6
  <2> QED
    BY <1>1, <1>2, <1>4, <1>15, <2>1, <2>2, ExpireTurnChips
       DEF MonitorExpire, Transition, Available
<1>16. CASE MonitorPurge
  <2>1. CASE table.showdown # None
    <3>1. table.pot = 0
      BY <1>1, <2>1 DEF Sound, HandOpen, Tidy
    <3> QED
      BY <1>1, <1>4, <1>16, <3>1, RemoveUnconfirmedChips DEF MonitorPurge
  <2>2. CASE table.showdown = None
    BY <1>2, <1>16, <2>2 DEF MonitorPurge, RemoveUnconfirmed
  <2> QED
    BY <2>1, <2>2
<1>17. CASE MonitorStart
  <2>1. ASSUME EnoughToStart, NEW order \in Orders[table.players]
        PROVE  Balanced(table, StartGame(table, order))
    <3> DEFINE u == StartGame(table, order)
    <3>1. table.players # {} /\ ~IsRunning(table)
      BY <2>1, FS_EmptySet DEF EnoughToStart
    <3>2. Bets(table) = 0 /\ table.pot = 0
      BY <1>1, <3>1, CleanAtRest
    <3>3. /\ u \in TableType /\ u.players = table.players /\ Within(u, MaxChips)
          /\ Bets(u) <= u.pot /\ Chips(u) = Chips(table)
      BY <1>1, <3>1, <3>2, StartGameChips
    <3> HIDE DEF u
    <3>4. Balanced(table, u)
      BY <1>1, <3>3, SameBalanced
    <3> QED
      BY <3>4 DEF u
  <2> QED
    BY <1>2, <1>17, <2>1 DEF MonitorStart
<1>18. CASE Tick
  BY <1>1, <1>3, <1>18, TickChips DEF Tick, NoneCome
<1>19. CASE MonitorCount \/ MonitorShowdown
  BY <1>2, <1>19 DEF MonitorCount, MonitorShowdown
<1>20. CASE UNCHANGED vars
  BY <1>2, <1>20 DEF vars
<1> QED
  BY <1>7, <1>8, <1>9, <1>10, <1>12, <1>13, <1>14, <1>15, <1>16, <1>17, <1>18, <1>19, <1>20
     DEF Next, Request, Monitor

\* With one request at a time, next to the monitor, chips come and go with the
\* players only, whether a hand ends by a showdown, a fold, a leave or a timeout.
THEOREM ChipsStay ==
  ASSUME OneAtATime
  PROVE  Spec => ChipsConserved
<1>1. Init => Within(table, MaxChips) /\ Bets(table) <= table.pot
  <2>1. NewTable.players = {} /\ NewTable.pot = 0
    BY DEF NewTable
  <2>2. Bets(NewTable) <= NewTable.pot
    BY <2>1, SumEmpty DEF Bets
  <2>3. Within(NewTable, MaxChips)
    BY WithinAtFirst, WebAssumption
  <2> QED
    BY <2>2, <2>3 DEF Init
<1>2. ASSUME SequentialInv, Within(table, MaxChips), Bets(table) <= table.pot, [Next]_vars
      PROVE  Balanced(table, table')
  BY <1>2, BalancedStep DEF ChipsInv
<1>3. SequentialInv /\ (Within(table, MaxChips) /\ Bets(table) <= table.pot) /\ [Next]_vars
        => (Within(table, MaxChips) /\ Bets(table) <= table.pot)'
  BY <1>2 DEF Balanced, Within, Chips, Wallets, Bets
<1>4. SequentialInv /\ (Within(table, MaxChips) /\ Bets(table) <= table.pot) /\ [Next]_vars
        => [Chips(table') = Chips(table)
              + Wallets(table', table'.players \ table.players)
              - Wallets(table, table.players \ table'.players)]_table
  BY <1>2 DEF Balanced
<1> QED
  BY <1>1, <1>3, <1>4, SequentialWeb, PTL DEF Spec, ChipsConserved

=============================================================================
