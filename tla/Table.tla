------------------------------- MODULE Table --------------------------------
(***************************************************************************)
(* A poker table under the calls that can reach it.  The table lives in an *)
(* Arc<Mutex<Table>>: whatever threads there are, a behaviour is a         *)
(* sequence of method calls, one for each time the mutex is taken.  The    *)
(* requests of web.rs test the turn, place a bet and advance the turn      *)
(* under separate locks, so nothing is assumed here of who calls what when *)
(* (module WebTable follows the threads themselves and implements this).   *)
(*                                                                         *)
(* Only a hand's start is guarded by its caller, under the same lock.      *)
(***************************************************************************)
EXTENDS TableOps

CONSTANTS
  JoinChips,  \* the wallets players come with
  Amounts,    \* the amounts players raise by
  MaxChips    \* bound: nobody joins if that brings more chips to the table

ASSUME ChipsAssumption ==
  /\ JoinChips \subseteq Nat
  /\ Amounts \subseteq Nat
  /\ MaxChips \in Nat /\ MaxChips < WordSize

VARIABLE table

-----------------------------------------------------------------------------

Init == table = NewTable

\* The mutex can be taken: no earlier call panicked or hangs under it.
Available == table.health = "ok"

Join(p) ==
  \E chips \in JoinChips :
    /\ Available /\ p \notin table.players
    /\ Chips(table) + chips <= MaxChips
    /\ table' = AddPlayer(table, p, chips)

Bet(p) ==
  /\ Available /\ p \in table.players
  /\ \/ \E amount \in Amounts : table' = Raise(table, p, amount)
     \/ table' = AllIn(table, p)
     \/ table' = Check(table, p)

FoldHand(p) ==
  \E rank \in Ranks[Contenders(table)] :
    /\ Available /\ p \in table.players
    /\ table' = Fold(table, p, rank)

Leave(p) ==
  \E rank \in Ranks[Contenders(table)], order \in Orders[table.players \ {p}] :
    /\ Available /\ p \in table.players
    /\ table' = Remove(table, p, order, rank)

Confirm(p) ==
  /\ Available /\ table.showdown # None
  /\ table' = KeepPlaying(table, p)

Advance ==
  \E rank \in Ranks[Contenders(table)] :
    /\ Available /\ IsRunning(table)
    /\ table' = AdvanceTurn(table, rank)

Start ==
  \E order \in Orders[table.players] :
    /\ Available /\ Cardinality(table.players) >= 2 /\ ~IsRunning(table)
    /\ table' = StartGame(table, order)

Expire ==
  \E rank \in Ranks[Contenders(table)], order \in Orders[table.players \ {table.turn}] :
    /\ Available /\ table.showdown = None /\ table.clock = "expired"
    /\ table' = ExpireTurn(table, order, rank)

Purge ==
  \E order \in Orders[table.confirmed \cap table.players] :
    /\ Available /\ table.showdown # None
    /\ table' = RemoveUnconfirmed(table, order)

\* The turn's player lets TURN_TIMEOUT pass.
Tick ==
  /\ Available /\ table.clock = "fresh"
  /\ table' = [table EXCEPT !.clock = "expired"]

Next ==
  \/ \E p \in Ids : Join(p) \/ Bet(p) \/ FoldHand(p) \/ Leave(p) \/ Confirm(p)
  \/ Advance \/ Start \/ Expire \/ Purge \/ Tick

Spec == Init /\ [][Next]_table

-----------------------------------------------------------------------------

\* The fields keep the types they have in the struct; in particular no wallet,
\* bet or pot goes below zero, which u64 would wrap around to a fortune.
TypeOK == table \in TableType

\* No call hangs on a node's mutex it already holds, or panics because the
\* head has no predecessor: whatever calls come late, fold never finds the
\* folder alone on the ring (lib.rs:291-301), advance_turn never walks a ring
\* of one (lib.rs:565-577), and add_player's unwrap (lib.rs:186) is safe.  An
\* underflow in check is another matter.
NeverWedged == table.health \in {"ok", "overflow"}

\* The hand's ring: its members are seated and have not folded, next and prev
\* are inverse and lead to somebody else, and there is a ring, with the turn
\* on it and the clock running, exactly while a hand is on.  fold, end_game,
\* remove_player and start_game each set some of these pointers.
RingConsistent == RingLinks(table) /\ TurnOnRing(table)

\* The ring is one cycle: a walk along next from any player passes every other
\* player of the hand, so a deal, the comparison of the bets and the search
\* for the next to bet miss nobody and return to where they began.
OneRing == OneCycle(table)

\* No pointer of the table leads to a player who left, and the full ring's two
\* directions are inverse on the seated players (TODO of lib.rs:281).
NoDanglingPointer == PointersSeated(table) /\ SeatLinks(table)

\* No call creates chips: what is at the table grows by no more than what a
\* new player brings, whatever late bets an already finished hand receives.
ChipsNeverCreated ==
  [][Chips(table') <=
       Chips(table) + Wallets(table', table'.players \ table.players)]_table

\* While a hand goes on, its ring only loses players, one at a time and in
\* seat order: nobody is dealt in after the start, passed over or moved.
SeatOrderKept ==
  [][IsRunning(table) /\ IsRunning(table') => SeatOrder(table, table')]_table

\* A wallet grows only when a hand ends, and never a folded player's.  The winner
\* shown was dealt in, except in Texas hold'em, where a player who joined during
\* the hand can be shown as the winner with the community cards alone.
OnlyContendersWin ==
  [][WalletsGrowAtTheEnd(table, table') /\ WinnerWasDealtIn(table, table')]_table
=============================================================================
