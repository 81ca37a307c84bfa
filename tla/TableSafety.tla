---------------------------- MODULE TableSafety -----------------------------
(***************************************************************************)
(* The theorems about Table: what holds of a table whatever calls come in  *)
(* whatever order, for any players, wallets and raises and each of the     *)
(* three games.  Each follows from what TableLemmas shows of the table's   *)
(* operators, with one step for each action.                               *)
(*                                                                         *)
(* And those about SavedWallets: what the database keeps of the wallets of *)
(* any number of tables.                                                   *)
(*                                                                         *)
(* And that of SidePots: the levels of a showdown pay what the rule pays.  *)
(***************************************************************************)
EXTENDS Table, TableLemmas, JoinedWallets, SequenceTheorems

\* Of SavedWallets: the tables that share the database, what may go wrong, and the
\* bounds, none of which a proof uses.
CONSTANTS Tables, Orderly, MayFail, MaxThreads, MaxJoining, MaxStops

\* Of SavedWallets, whose tables are not the one of Table.
VARIABLES tables, threads, schema, rows, stops, brought

\* The wallets that players bring and the size of a word are those of Table.
Db == INSTANCE SavedWallets
  WITH NewWallets <- JoinChips, Word <- WordSize, table <- tables

-----------------------------------------------------------------------------
(* Of Table: the rings, the chips, and who is paid.                          *)

\* A turn that is late is somebody's.
LEMMA LateRunning ==
  ASSUME NEW t, Sound(t), t.clock = "expired"
  PROVE  IsRunning(t)
BY DEF Sound, TurnOnRing

\* Every call keeps a sound table sound.
LEMMA SoundStep ==
  ASSUME Sound(table), [Next]_table
  PROVE  Sound(table')
<1>1. CASE UNCHANGED table
  BY <1>1
<1>2. ASSUME NEW p \in Ids, Join(p)
      PROVE  Sound(table')
  BY <1>2, AddPlayerSound, ChipsAssumption DEF Join
<1>3. ASSUME NEW p \in Ids, Bet(p)
      PROVE  Sound(table')
  BY <1>3, RaiseSound, AllInSound, CheckSound, ChipsAssumption DEF Bet
<1>4. ASSUME NEW p \in Ids, FoldHand(p)
      PROVE  Sound(table')
  BY <1>4, FoldSound DEF FoldHand
<1>5. ASSUME NEW p \in Ids, Leave(p)
      PROVE  Sound(table')
  BY <1>5, RemoveSound DEF Leave, Available
<1>6. ASSUME NEW p \in Ids, Confirm(p)
      PROVE  Sound(table')
  BY <1>6, KeepPlayingSound DEF Confirm
<1>7. CASE Advance
  <2>1. Contenders(table) \in SUBSET Ids
    BY ContendersSubset DEF Sound
  <2> QED
    BY <1>7, <2>1, AdvanceTurnSound DEF Advance, Available
<1>8. CASE Start
  BY <1>8, StartGameSound DEF Start
<1>9. CASE Expire
  BY <1>9, LateRunning, ExpireTurnSound DEF Expire, Available
<1>10. CASE Purge
  BY <1>10, RemoveUnconfirmedSound DEF Purge
<1>11. CASE Tick
  BY <1>11, TickSound DEF Tick
<1> QED
  BY <1>1, <1>2, <1>3, <1>4, <1>5, <1>6, <1>7, <1>8, <1>9, <1>10, <1>11 DEF Next

\* Sound is inductive: an empty table is sound, and every call keeps it so.
THEOREM AlwaysSound == Spec => []Sound(table)
<1>1. Init => Sound(table)
  BY NewTableSound DEF Init
<1>2. Sound(table) /\ [Next]_table => Sound(table)'
  BY SoundStep
     DEF Sound, RingLinks, TurnOnRing, OneCycle, PointersSeated, SeatLinks, HandOpen, IsRunning,
         Ring, Contenders
<1> QED
  BY <1>1, <1>2, PTL DEF Spec

\* The types of the struct's fields are kept by every call: in particular no
\* wallet, bet or pot ever goes below zero.
THEOREM TypeCorrect == Spec => []TypeOK
<1>1. Sound(table) => TypeOK
  BY DEF Sound, TypeOK
<1> QED
  BY <1>1, AlwaysSound, PTL

\* No call hangs on a mutex it holds, or panics for want of a predecessor.
THEOREM Unwedged == Spec => []NeverWedged
<1>1. Sound(table) => NeverWedged
  BY DEF Sound, NeverWedged
<1> QED
  BY <1>1, AlwaysSound, PTL

\* The hand's ring leads both ways from player to player, and the turn is on it.
THEOREM RingStaysConsistent == Spec => []RingConsistent
<1>1. Sound(table) => RingConsistent
  BY DEF Sound, RingConsistent
<1> QED
  BY <1>1, AlwaysSound, PTL

\* The hand's ring is one cycle through all its players.
THEOREM RingStaysOne == Spec => []OneRing
<1>1. Sound(table) => OneRing
  BY DEF Sound, OneRing
<1> QED
  BY <1>1, AlwaysSound, PTL

\* No pointer leads to a player who left.
THEOREM PointersStaySeated == Spec => []NoDanglingPointer
<1>1. Sound(table) => NoDanglingPointer
  BY DEF Sound, NoDanglingPointer
<1> QED
  BY <1>1, AlwaysSound, PTL

-----------------------------------------------------------------------------

\* While a hand goes on nobody is dealt in, passed over or moved: only a fold,
\* a leave or a timeout takes anybody off its ring, and only one player.
THEOREM RingKeepsOrder == Spec => SeatOrderKept
<1>1. ASSUME Sound(table), [Next]_table, IsRunning(table), IsRunning(table')
      PROVE  SeatOrder(table, table')
  <2>1. CASE table'.next = table.next
    BY <2>1, SameRingInOrder
  <2>2. ASSUME NEW p \in Ids, table'.next = NextWithout(table, p)
        PROVE  SeatOrder(table, table')
    BY <1>1, <2>2, CutInOrder
  <2>3. table \in TableType /\ table'.turn # None
    BY <1>1 DEF Sound, IsRunning
  <2>4. CASE UNCHANGED table
    BY <2>1, <2>4
  <2>5. ASSUME NEW p \in Ids, Join(p)
        PROVE  table'.next = table.next
    BY <2>3, <2>5 DEF Join, AddPlayer, LinkNode, TableType
  <2>6. ASSUME NEW p \in Ids, Bet(p)
        PROVE  table'.next = table.next
    BY <2>3, <2>6 DEF Bet, Raise, AllIn, Check, TableType
  <2>7. ASSUME NEW p \in Ids, FoldHand(p)
        PROVE  table'.next = NextWithout(table, p)
    BY <1>1, <2>3, <2>7, FoldNext DEF FoldHand
  <2>8. ASSUME NEW p \in Ids, Leave(p)
        PROVE  table'.next = NextWithout(table, p)
    BY <1>1, <2>3, <2>8, RemoveNext DEF Leave, Available
  <2>9. ASSUME NEW p \in Ids, Confirm(p)
        PROVE  table'.next = table.next
    BY <2>3, <2>9 DEF Confirm, KeepPlaying, TableType
  <2>10. CASE Advance
    BY <2>1, <2>3, <2>10, AdvanceTurnNext DEF Advance
  <2>11. CASE Start
    BY <1>1, <2>11 DEF Start
  <2>12. CASE Expire
    <3>1. table.turn \in Ids
      BY <1>1, RingSeated
    <3> QED
      BY <1>1, <2>2, <2>3, <2>12, <3>1, LateRunning, ExpireTurnNext DEF Expire, Available
  <2>13. CASE Purge
    BY <1>1, <2>13 DEF Purge, Sound, HandOpen
  <2>14. CASE Tick
    BY <2>1, <2>3, <2>14 DEF Tick, TableType
  <2> QED
    BY <1>1, <2>1, <2>2, <2>4, <2>5, <2>6, <2>7, <2>8, <2>9, <2>10, <2>11, <2>12, <2>13, <2>14
       DEF Next
<1>2. Sound(table) /\ [Next]_table =>
        [IsRunning(table) /\ IsRunning(table') => SeatOrder(table, table')]_table
  BY <1>1
<1> QED
  BY <1>2, AlwaysSound, PTL DEF Spec, SeatOrderKept

\* A wallet grows only when a hand ends, and only the wallet of a player who has
\* not folded; and but for Texas hold'em the winner shown was dealt in.
THEOREM OnlyContendersPaid == Spec => OnlyContendersWin
<1> DEFINE Right == WalletsGrowAtTheEnd(table, table') /\ WinnerWasDealtIn(table, table')
<1>1. ASSUME Sound(table), [Next]_table
      PROVE  Right
  <2>1. table \in TableType /\ table' \in TableType
    BY <1>1, SoundStep DEF Sound
  <2>2. PaysRight(table, table') => Right
    BY <2>1 DEF PaysRight, WalletsGrowAtTheEnd, Contenders, TableType
  <2>3. \A p \in Ids : table.wallet[p] \in Nat /\ table.wallet[p] <= table.wallet[p]
    BY <2>1 DEF TableType
  <2>4. ASSUME table'.turn = table.turn, \A p \in Ids : table'.wallet[p] <= table.wallet[p]
        PROVE  Right
    BY <2>1, <2>2, <2>4, SameWalletsPay DEF HandEnds, IsRunning
  <2> HIDE DEF Right
  <2>5. CASE UNCHANGED table
    BY <2>3, <2>4, <2>5
  <2>6. ASSUME NEW p \in Ids, Join(p)
        PROVE  Right
    <3>1. PICK chips \in JoinChips : table' = AddPlayer(table, p, chips)
      BY <2>6 DEF Join
    <3>2. p \notin table.players /\ table.players \subseteq Ids
      BY <2>1, <2>6 DEF Join, TableType
    <3>3. table'.turn = table.turn /\ \A q \in Ids \ {p} : table'.wallet[q] = table.wallet[q]
      BY <2>1, <3>1 DEF AddPlayer, LinkNode, TableType
    <3> QED
      BY <2>3, <3>2, <3>3
         DEF Right, WalletsGrowAtTheEnd, WinnerWasDealtIn, HandEnds, IsRunning
  <2>7. ASSUME NEW p \in Ids, Bet(p)
        PROVE  Right
    <3>1. Owed(table, p) \in Nat /\ table.wallet[p] \in Nat
      BY <2>1, OwedType DEF TableType
    <3>2. CASE \E amount \in Amounts : table' = Raise(table, p, amount)
      <4>1. PICK amount \in Nat : table' = Raise(table, p, amount)
        BY <3>2, ChipsAssumption
      <4>2. table'.turn = table.turn
        BY <2>1, <4>1 DEF Raise, TableType
      <4>3. \A q \in Ids : table'.wallet[q] <= table.wallet[q]
        BY <2>1, <2>3, <4>1 DEF Raise, TableType
      <4> QED
        BY <2>4, <4>2, <4>3
    <3>3. CASE table' = AllIn(table, p)
      <4>1. table'.turn = table.turn
        BY <2>1, <3>3 DEF AllIn, TableType
      <4>2. \A q \in Ids : table'.wallet[q] <= table.wallet[q]
        BY <2>1, <2>3, <3>3 DEF AllIn, TableType
      <4> QED
        BY <2>4, <4>1, <4>2
    <3>4. CASE table' = Check(table, p)
      <4>1. table'.turn = table.turn
        BY <2>1, <3>4 DEF Check, TableType
      <4>2. \A q \in Ids : table'.wallet[q] <= table.wallet[q]
        BY <2>1, <2>3, <3>1, <3>4 DEF Check, TableType
      <4> QED
        BY <2>4, <4>1, <4>2
    <3> QED
      BY <2>7, <3>2, <3>3, <3>4 DEF Bet
  <2>8. ASSUME NEW p \in Ids, FoldHand(p)
        PROVE  Right
    BY <1>1, <2>2, <2>8, FoldPays DEF FoldHand
  <2>9. ASSUME NEW p \in Ids, Leave(p)
        PROVE  Right
    BY <1>1, <2>2, <2>9, RemovePays DEF Leave, Available
  <2>10. ASSUME NEW p \in Ids, Confirm(p)
         PROVE  Right
    <3>1. table'.turn = table.turn /\ table'.wallet = table.wallet
      BY <2>1, <2>10 DEF Confirm, KeepPlaying, TableType
    <3> QED
      BY <2>3, <2>4, <3>1
  <2>11. CASE Advance
    <3>1. Contenders(table) \in SUBSET Ids
      BY <2>1, ContendersSubset
    <3> QED
      BY <1>1, <2>2, <2>11, <3>1, AdvanceTurnPays DEF Advance, Available
  <2>12. CASE Start
    <3>1. table.players # {}
      BY <2>12, FS_EmptySet DEF Start
    <3>2. \A p \in Ids : table'.wallet[p] <= table.wallet[p]
      BY <1>1, <2>12, <3>1, StartGameWallets DEF Start
    <3>3. ~HandEnds(table, table')
      BY <2>12 DEF Start, HandEnds
    <3> QED
      BY <2>1, <2>2, <3>2, <3>3, SameWalletsPay
  <2>13. CASE Expire
    BY <1>1, <2>2, <2>13, LateRunning, ExpireTurnPays DEF Expire, Available
  <2>14. CASE Purge
    <3>1. ~HandEnds(table, table')
      BY <1>1, <2>14 DEF Purge, HandEnds, Sound, HandOpen
    <3>2. \A p \in Ids : table'.wallet[p] <= table.wallet[p]
      BY <2>1, <2>14, RemoveUnconfirmedWallets DEF Purge
    <3> QED
      BY <2>1, <2>2, <3>1, <3>2, SameWalletsPay
  <2>15. CASE Tick
    <3>1. table'.turn = table.turn /\ table'.wallet = table.wallet
      BY <2>1, <2>15 DEF Tick, TableType
    <3> QED
      BY <2>3, <2>4, <3>1
  <2> QED
    BY <1>1, <2>5, <2>6, <2>7, <2>8, <2>9, <2>10, <2>11, <2>12, <2>13, <2>14, <2>15 DEF Next
<1>2. Sound(table) /\ [Next]_table =>
        [WalletsGrowAtTheEnd(table, table') /\ WinnerWasDealtIn(table, table')]_table
  BY <1>1
<1> QED
  BY <1>2, AlwaysSound, PTL DEF Spec, OnlyContendersWin

-----------------------------------------------------------------------------
(* No chips come out of nothing.  An underflow in check could wrap around   *)
(* to a debt nobody has, and a release build pays it if a wallet can; none  *)
(* can, as long as the chips at the table, and the bet, stay below the      *)
(* modulus.  So the bound on the chips is part of what is inductive.        *)

\* The bound holds, and whatever there is more came with new players.
Accounted(t, u) ==
  /\ Within(u, MaxChips)
  /\ Chips(u) <= Chips(t) + Wallets(u, u.players \ t.players)

LEMMA MadeAccounted ==
  ASSUME NEW t \in TableType, NEW u, BetsMade(t, u), Within(u, MaxChips)
  PROVE  Accounted(t, u)
<1>1. Chips(u) = Chips(t) /\ u.players \ t.players = {} /\ u \in TableType
  BY BetsMadeChips DEF BetsMade
<1>2. Chips(t) \in Nat /\ Wallets(u, {}) = 0
  BY SumEmpty, ChipsType DEF Wallets
<1> QED
  BY <1>1, <1>2 DEF Accounted

LEMMA NoneComeAccounted ==
  ASSUME NEW t \in TableType, Within(t, MaxChips), NEW u, NoneCome(t, u)
  PROVE  Accounted(t, u)
<1>1. Chips(u) <= Chips(t) /\ u.players \ t.players = {} /\ Within(u, MaxChips)
  BY ChipsAssumption DEF NoneCome
<1>2. Chips(t) \in Nat /\ Chips(u) \in Nat /\ Wallets(u, {}) = 0
  BY SumEmpty, ChipsType DEF NoneCome, Wallets
<1> QED
  BY <1>1, <1>2 DEF Accounted

\* Who joins brings chips: the table has no more than those on top of what it had.
LEMMA JoinAccounted ==
  ASSUME NEW t \in TableType, t.players \subseteq Ids, Within(t, MaxChips),
         NEW p \in Ids, p \notin t.players, NEW chips \in Nat,
         Chips(t) + chips <= MaxChips
  PROVE  Accounted(t, AddPlayer(t, p, chips))
<1> DEFINE u == AddPlayer(t, p, chips)
<1>1. t.pbet[p] = 0 /\ MaxChips \in Nat
  BY ChipsAssumption DEF Within
<1>2. /\ u \in TableType
      /\ \/ u.players = t.players /\ BetsMade(t, u)
         \/ /\ u.players = t.players \cup {p}
            /\ Chips(u) = Chips(t) + chips /\ Wallets(u, {p}) = chips
      /\ Bets(u) = Bets(t) /\ u.pot = t.pot /\ u.bet = t.bet
      /\ \A q \in Ids \ {p} : u.wallet[q] = t.wallet[q] /\ u.pbet[q] = t.pbet[q]
  BY <1>1, AddPlayerChips, Zenon
<1> HIDE DEF u
<1>3. ASSUME u.players = t.players, BetsMade(t, u)
      PROVE  Accounted(t, u)
  <2>1. Within(u, MaxChips)
    BY <1>1, <1>2, <1>3, BetsMadeWithin DEF Within
  <2> QED
    BY <1>1, <1>3, <2>1, MadeAccounted
<1>4. ASSUME u.players = t.players \cup {p},
             Chips(u) = Chips(t) + chips, Wallets(u, {p}) = chips
      PROVE  Accounted(t, u)
  <2>1. u.players \ t.players = {p} /\ p \notin Ids \ u.players
    BY <1>4
  <2>2. Within(u, MaxChips)
    BY <1>2, <1>4, <2>1 DEF Within
  <2>3. Chips(u) <= Chips(t) + Wallets(u, u.players \ t.players)
    <3>1. Chips(u) \in Nat
      BY <1>2, ChipsType
    <3> QED
      BY <1>4, <2>1, <3>1
  <2> QED
    BY <2>2, <2>3 DEF Accounted
<1> QED
  BY <1>2, <1>3, <1>4 DEF u

LEMMA AccountedStep ==
  ASSUME Sound(table), Within(table, MaxChips), [Next]_table
  PROVE  Accounted(table, table')
<1>1. /\ table \in TableType /\ table.players \subseteq Ids
      /\ MaxChips \in Nat /\ MaxChips < WordSize
  BY ChipsAssumption DEF Sound, TableType
<1>2. CASE UNCHANGED table
  <2>1. BetsMade(table, table')
    BY <1>1, <1>2, SameBetsMade
  <2> QED
    BY <1>1, <1>2, <2>1, MadeAccounted
<1>3. ASSUME NEW p \in Ids, Join(p)
      PROVE  Accounted(table, table')
  <2>1. PICK chips \in JoinChips : /\ Chips(table) + chips <= MaxChips
                                   /\ table' = AddPlayer(table, p, chips)
    BY <1>3 DEF Join
  <2>2. p \notin table.players /\ chips \in Nat
    BY <1>3, ChipsAssumption DEF Join
  <2>3. Accounted(table, AddPlayer(table, p, chips))
    BY <1>1, <2>1, <2>2, JoinAccounted
  <2> QED
    BY <2>1, <2>3
<1>4. ASSUME NEW p \in Ids, Bet(p)
      PROVE  Accounted(table, table')
  <2>1. BetsMade(table, table') /\ Within(table', MaxChips)
    BY <1>1, <1>4, RaiseChips, AllInChips, CheckChips, ChipsAssumption DEF Bet
  <2> QED
    BY <1>1, <2>1, MadeAccounted
<1>5. ASSUME NEW p \in Ids, FoldHand(p)
      PROVE  NoneCome(table, table')
  BY <1>5, FoldChips DEF FoldHand
<1>6. ASSUME NEW p \in Ids, Leave(p)
      PROVE  NoneCome(table, table')
  BY <1>6, RemoveChips DEF Leave, Available
<1>7. ASSUME NEW p \in Ids, Confirm(p)
      PROVE  NoneCome(table, table')
  BY <1>1, <1>7, KeepPlayingChips DEF Confirm
<1>8. CASE Advance
  <2>1. Contenders(table) \in SUBSET Ids
    BY <1>1, ContendersSubset
  <2>2. NoneCome(table, table')
    BY <1>8, <2>1, AdvanceTurnChips DEF Advance
  <2> QED
    BY <1>1, <2>2, NoneComeAccounted
<1>9. CASE Start
  <2>1. table.players # {}
    BY <1>9, FS_EmptySet DEF Start
  <2>2. PICK order \in Orders[table.players] : table' = StartGame(table, order)
    BY <1>9 DEF Start
  <2>3. /\ table' \in TableType /\ table'.players = table.players
        /\ Within(table', MaxChips) /\ Chips(table') <= Chips(table)
    BY <1>1, <2>1, <2>2, StartGameChips
  <2>4. table'.players \ table.players = {} /\ Wallets(table', {}) = 0
    BY <2>3, SumEmpty DEF Wallets
  <2>5. Chips(table') \in Nat /\ Chips(table) \in Nat
    BY <1>1, <2>3, ChipsType
  <2> QED
    BY <2>3, <2>4, <2>5 DEF Accounted
<1>10. CASE Expire
  <2>1. NoneCome(table, table')
    BY <1>10, LateRunning, ExpireTurnChips DEF Expire, Available
  <2> QED
    BY <1>1, <2>1, NoneComeAccounted
<1>11. CASE Purge
  <2>1. NoneCome(table, table')
    BY <1>1, <1>11, RemoveUnconfirmedChips DEF Purge
  <2> QED
    BY <1>1, <2>1, NoneComeAccounted
<1>12. CASE Tick
  <2>1. NoneCome(table, table')
    BY <1>1, <1>12, TickChips DEF Tick
  <2> QED
    BY <1>1, <2>1, NoneComeAccounted
<1>13. ASSUME NEW p \in Ids, FoldHand(p) \/ Leave(p) \/ Confirm(p)
       PROVE  Accounted(table, table')
  BY <1>1, <1>5, <1>6, <1>7, <1>13, NoneComeAccounted
<1> QED
  BY <1>2, <1>3, <1>4, <1>8, <1>9, <1>10, <1>11, <1>12, <1>13 DEF Next

\* The chips at the table stay within the bound on what players bring.
THEOREM AlwaysWithin == Spec => [](Sound(table) /\ Within(table, MaxChips))
<1>1. Init => Sound(table) /\ Within(table, MaxChips)
  BY NewTableSound, WithinAtFirst, ChipsAssumption DEF Init
<1>2. Sound(table) /\ Within(table, MaxChips) /\ [Next]_table
        => (Sound(table) /\ Within(table, MaxChips))'
  <2> SUFFICES ASSUME Sound(table), Within(table, MaxChips), [Next]_table
               PROVE  Sound(table)' /\ Within(table, MaxChips)'
    OBVIOUS
  <2>1. Sound(table)'
    <3>1. Sound(table')
      BY SoundStep
    <3> QED
      BY <3>1
         DEF Sound, RingLinks, TurnOnRing, OneCycle, PointersSeated, SeatLinks, HandOpen,
             IsRunning, Ring, Contenders
  <2>2. Within(table, MaxChips)'
    <3>1. Within(table', MaxChips)
      BY AccountedStep DEF Accounted
    <3> QED
      BY <3>1 DEF Within, Chips, Wallets, Bets
  <2> QED
    BY <2>1, <2>2
<1> QED
  BY <1>1, <1>2, PTL DEF Spec

\* No call creates chips, late bets and antes included: what a table holds grows
\* only by what new players bring.
THEOREM NoChipsCreated == Spec => ChipsNeverCreated
<1>1. Sound(table) /\ Within(table, MaxChips) /\ [Next]_table =>
        [Chips(table') <=
           Chips(table) + Wallets(table', table'.players \ table.players)]_table
  BY AccountedStep DEF Accounted
<1> QED
  BY <1>1, AlwaysWithin, PTL DEF Spec, ChipsNeverCreated

-----------------------------------------------------------------------------
(* Of SavedWallets: sums, and the players at a table in any order.           *)

\* Cardinalities and sums are the same in both modules.
LEMMA SameCardinality ==
  ASSUME NEW S
  PROVE  Db!Cardinality(S) = Cardinality(S)
BY DEF Db!Cardinality, Cardinality

LEMMA SameSum ==
  ASSUME NEW f, NEW S
  PROVE  Db!SumFunctionOnSet(f, S) = SumFunctionOnSet(f, S)
BY DEF Db!SumFunctionOnSet, SumFunctionOnSet, Db!FoldFunctionOnSet, FoldFunctionOnSet,
       Db!MapThenFoldSet, MapThenFoldSet

\* A sum in which one term changes.
LEMMA SumChange ==
  ASSUME NEW S, IsFiniteSet(S), NEW f, NEW g, NEW x \in S,
         \A y \in S : f[y] \in Nat /\ g[y] \in Nat /\ (y # x => g[y] = f[y])
  PROVE  /\ SumFunctionOnSet(f, S) \in Nat /\ SumFunctionOnSet(g, S) \in Nat
         /\ SumFunctionOnSet(g, S) + f[x] = SumFunctionOnSet(f, S) + g[x]
<1> DEFINE R == S \ {x}
<1>1. /\ SumFunctionOnSet(f, S) = f[x] + SumFunctionOnSet(f, R)
      /\ SumFunctionOnSet(g, S) = g[x] + SumFunctionOnSet(g, R)
  BY SumRemove
<1>2. IsFiniteSet(R)
  BY FS_Subset
<1>3. SumFunctionOnSet(g, R) = SumFunctionOnSet(f, R)
  BY <1>2, SumSame
<1>4. SumFunctionOnSet(f, R) \in Nat
  BY <1>2, SumType
<1> QED
  BY <1>1, <1>3, <1>4

\* No term is more than the sum.
LEMMA SumTerm ==
  ASSUME NEW S, IsFiniteSet(S), NEW f, \A y \in S : f[y] \in Nat, NEW x \in S
  PROVE  f[x] <= SumFunctionOnSet(f, S)
<1>1. SumFunctionOnSet(f, S) = f[x] + SumFunctionOnSet(f, S \ {x})
  BY SumRemove
<1>2. SumFunctionOnSet(f, S \ {x}) \in Nat
  BY FS_Subset, SumType
<1> QED
  BY <1>1, <1>2

\* A sum of terms that are at most those of two others.
LEMMA SumOfTwo ==
  ASSUME NEW S, IsFiniteSet(S), NEW f, NEW g, NEW h,
         \A x \in S : f[x] \in Nat /\ g[x] \in Nat /\ h[x] \in Nat /\ h[x] <= f[x] + g[x]
  PROVE  SumFunctionOnSet(h, S) <= SumFunctionOnSet(f, S) + SumFunctionOnSet(g, S)
<1> DEFINE b == [x \in S |-> f[x] + g[x]]
<1>1. \A x \in S : b[x] = f[x] + g[x] /\ b[x] \in Nat /\ h[x] <= b[x]
  OBVIOUS
<1> HIDE DEF b
<1>2. SumFunctionOnSet(b, S) = SumFunctionOnSet(f, S) + SumFunctionOnSet(g, S)
  BY <1>1, SumAdd
<1>3. SumFunctionOnSet(h, S) <= SumFunctionOnSet(b, S)
  BY <1>1, SumMonotone
<1> QED
  BY <1>2, <1>3

\* An order of a set lists everybody in it once.
LEMMA OrderedSet ==
  ASSUME NEW S, IsFiniteSet(S), NEW order \in Db!SetToSeqs(S)
  PROVE  /\ order \in Seq(S) /\ DOMAIN order = 1..Len(order)
         /\ \A i, j \in 1..Len(order) : i # j => order[i] # order[j]
         /\ \A x \in S : \E i \in 1..Len(order) : order[i] = x
<1> DEFINE n == Cardinality(S)
<1>1. n \in Nat
  BY FS_CardinalityType
<1>2. /\ order \in [1..n -> S]
      /\ \A i, j \in 1..n : i # j => order[i] # order[j]
  BY SameCardinality DEF Db!SetToSeqs
<1>3. order \in Seq(S) /\ Len(order) = n
  <2>1. [i \in 1..n |-> order[i]] \in Seq(S)
    BY <1>1, <1>2, IsASeq
  <2>2. order = [i \in 1..n |-> order[i]]
    BY <1>2
  <2>3. order \in Seq(S)
    BY <2>1, <2>2
  <2> QED
    BY <1>1, <1>2, <2>3, LenProperties
<1>4. ASSUME NEW x \in S, \A i \in 1..n : order[i] # x
      PROVE  FALSE
  <2>1. order \in [1..n -> S \ {x}]
    BY <1>2, <1>4
  <2>2. /\ IsFiniteSet(1..n) /\ Cardinality(1..n) = n
        /\ IsFiniteSet(S \ {x}) /\ Cardinality(S \ {x}) = n - 1
    <3>1. IsFiniteSet(1..n) /\ Cardinality(1..n) = IF 1 > n THEN 0 ELSE n - 1 + 1
      BY <1>1, FS_Interval
    <3> QED
      BY <1>1, <3>1, FS_RemoveElement
  <2>3. \E i, j \in 1..n : i # j /\ order[i] = order[j]
    BY <1>1, <2>1, <2>2, FS_PigeonHole
  <2> QED
    BY <1>2, <2>3
<1> QED
  BY <1>1, <1>2, <1>3, <1>4

-----------------------------------------------------------------------------
(* The wallets of a table and the threads of a call.                        *)

\* Every u64 comes back from the i64 of its column.
LEMMA StoredBack ==
  ASSUME NEW w \in 0..(WordSize - 1)
  PROVE  Db!Fetched(Db!Stored(w)) = w
BY NumberAssumption DEF Db!Fetched, Db!Stored

\* What is known of a table's types, with enough of its shape to compare records.
IsTable(t) ==
  /\ t = [wallet |-> t.wallet, ring |-> t.ring, live |-> t.live, pot |-> t.pot]
  /\ t.wallet = [p \in DOMAIN t.wallet |-> t.wallet[p]]
  /\ Db!Seated(t) \subseteq Ids /\ \A p \in Db!Seated(t) : t.wallet[p] \in Nat
  /\ t.ring \subseteq Db!Seated(t) /\ t.live \subseteq Ids /\ t.pot \in Nat

\* The threads that a call may spawn.
ThreadKinds == [op : {"upsert"}, id : Ids, wallet : Nat] \cup [op : {"delete"}, id : Ids]

\* What a table holds: its pot and the wallets of those who sit at it.
Holds(t) == t.pot + SumFunctionOnSet(Db!Wallets(t), Ids)

\* E is what each player's row is worth before and after each of the threads.
Worth(th) == IF th.op = "upsert" THEN th.wallet ELSE 0

Course(E, new) ==
  /\ E \in [0..Len(new) -> [Ids -> Nat]]
  /\ \A i \in 1..Len(new) : E[i] = [E[i-1] EXCEPT ![new[i].id] = Worth(new[i])]

\* The last of the threads to write player p's row writes this wallet.
Writes(new, p, wallet) ==
  \E i \in 1..Len(new) : /\ new[i] = Db!Upsert(p, wallet)
                         /\ \A j \in 1..Len(new) : j > i => new[j].id # p

Spares(new, p) == \A i \in 1..Len(new) : new[i].id # p

\* A call may take table t to u and spawn the new threads: it seats nobody, it
\* brings no chips, whoever stays has their wallet written unless it is as
\* before, and nowhere in the course of the threads are the rows worth more than
\* what the table held.
IsCall(t, u, new) ==
  /\ IsTable(u) /\ Db!Seated(u) \subseteq Db!Seated(t) /\ Holds(u) <= Holds(t)
  /\ new \in Seq(ThreadKinds) /\ \A i \in 1..Len(new) : new[i].id \in Db!Seated(t)
  /\ \A p \in Db!Seated(u) :
       \/ Writes(new, p, u.wallet[p])
       \/ Spares(new, p) /\ u.wallet[p] = t.wallet[p]
  /\ \E E : /\ Course(E, new) /\ E[0] = Db!Wallets(t) /\ E[Len(new)] = Db!Wallets(u)
            /\ \A i \in 0..Len(new) : /\ SumFunctionOnSet(E[i], Ids) <= Holds(t)
                                      /\ \A p \in Ids \ Db!Seated(t) : E[i][p] = 0

\* What a table holds is a number.
LEMMA HoldsType ==
  ASSUME NEW t, IsTable(t)
  PROVE  /\ Db!Wallets(t) \in [Ids -> Nat]
         /\ SumFunctionOnSet(Db!Wallets(t), Ids) \in Nat /\ Holds(t) \in Nat
<1>1. Db!Wallets(t) \in [Ids -> Nat]
  BY DEF Db!Wallets, IsTable, Db!Seated
<1>2. SumFunctionOnSet(Db!Wallets(t), Ids) \in Nat
  BY <1>1, SumType, IdsAssumption
<1> QED
  BY <1>1, <1>2 DEF Holds, IsTable

\* What two sequences of threads write, one after the other.
LEMMA WrittenAfter ==
  ASSUME NEW a \in Seq(ThreadKinds), NEW b \in Seq(ThreadKinds), NEW p, NEW wallet
  PROVE  /\ Writes(b, p, wallet) => Writes(a \o b, p, wallet)
         /\ Writes(a, p, wallet) /\ Spares(b, p) => Writes(a \o b, p, wallet)
         /\ Spares(a, p) /\ Spares(b, p) => Spares(a \o b, p)
<1> DEFINE m == Len(a)
           n == Len(b)
           new == a \o b
<1>1. /\ m \in Nat /\ n \in Nat /\ Len(new) = m + n
      /\ \A i \in 1..m : i \in 1..(m + n) /\ new[i] = a[i]
      /\ \A i \in 1..n : m + i \in 1..(m + n) /\ new[m + i] = b[i]
      /\ \A i \in 1..(m + n) : /\ i > m => new[i] = b[i - m] /\ i - m \in 1..n
                               /\ ~(i > m) => new[i] = a[i] /\ i \in 1..m
  <2>1. m \in Nat /\ n \in Nat
    BY LenProperties
  <2>2. /\ Len(new) = m + n
        /\ \A i \in 1..(m + n) : new[i] = IF i <= m THEN a[i] ELSE b[i - m]
    BY ConcatProperties
  <2> QED
    BY <2>1, <2>2
<1> HIDE DEF m, n, new
<1>2. ASSUME Writes(b, p, wallet)
      PROVE  Writes(new, p, wallet)
  <2>1. PICK i \in 1..n : /\ b[i] = Db!Upsert(p, wallet)
                          /\ \A j \in 1..n : j > i => b[j].id # p
    BY <1>2 DEF Writes, n
  <2>2. m + i \in 1..(m + n) /\ new[m + i] = Db!Upsert(p, wallet)
    BY <1>1, <2>1
  <2>3. ASSUME NEW j \in 1..(m + n), j > m + i
        PROVE  new[j].id # p
    <3>1. j > m /\ j - m > i
      BY <1>1, <2>1, <2>3
    <3>2. new[j] = b[j - m] /\ j - m \in 1..n
      BY <1>1, <3>1
    <3> QED
      BY <2>1, <3>1, <3>2
  <2> QED
    BY <1>1, <2>2, <2>3 DEF Writes
<1>3. ASSUME Writes(a, p, wallet), Spares(b, p)
      PROVE  Writes(new, p, wallet)
  <2>1. PICK i \in 1..m : /\ a[i] = Db!Upsert(p, wallet)
                          /\ \A j \in 1..m : j > i => a[j].id # p
    BY <1>3 DEF Writes, m
  <2>2. \A j \in 1..n : b[j].id # p
    BY <1>3 DEF Spares, n
  <2>3. i \in 1..(m + n) /\ new[i] = Db!Upsert(p, wallet)
    BY <1>1, <2>1
  <2>4. ASSUME NEW j \in 1..(m + n), j > i
        PROVE  new[j].id # p
    BY <1>1, <2>1, <2>2, <2>4
  <2> QED
    BY <1>1, <2>3, <2>4 DEF Writes
<1>4. ASSUME Spares(a, p), Spares(b, p)
      PROVE  Spares(new, p)
  <2>1. /\ \A i \in 1..m : a[i].id # p
        /\ \A i \in 1..n : b[i].id # p
    BY <1>4 DEF Spares, m, n
  <2>2. ASSUME NEW i \in 1..(m + n)
        PROVE  new[i].id # p
    BY <1>1, <2>1, <2>2
  <2> QED
    BY <1>1, <2>2 DEF Spares
<1> QED
  BY <1>2, <1>3, <1>4 DEF new

\* One call after the other.
LEMMA CallThen ==
  ASSUME NEW t, NEW u, NEW v, NEW a, NEW b, IsTable(t), IsCall(t, u, a), IsCall(u, v, b)
  PROVE  IsCall(t, v, a \o b)
<1> DEFINE m == Len(a)
           n == Len(b)
           new == a \o b
<1>1. /\ a \in Seq(ThreadKinds) /\ b \in Seq(ThreadKinds)
      /\ m \in Nat /\ n \in Nat /\ new \in Seq(ThreadKinds) /\ Len(new) = m + n
      /\ \A i \in 1..m : new[i] = a[i]
      /\ \A i \in 1..n : new[m + i] = b[i]
      /\ \A i \in 1..(m + n) : i > m => new[i] = b[i - m] /\ i - m \in 1..n
  <2>1. a \in Seq(ThreadKinds) /\ b \in Seq(ThreadKinds)
    BY DEF IsCall
  <2>2. m \in Nat /\ n \in Nat
    BY <2>1, LenProperties
  <2>3. /\ new \in Seq(ThreadKinds) /\ Len(new) = m + n
        /\ \A i \in 1..(m + n) : new[i] = IF i <= m THEN a[i] ELSE b[i - m]
    BY <2>1, ConcatProperties
  <2> QED
    BY <2>1, <2>2, <2>3
<1>2. PICK E : /\ Course(E, a) /\ E[0] = Db!Wallets(t) /\ E[m] = Db!Wallets(u)
               /\ \A i \in 0..m : /\ SumFunctionOnSet(E[i], Ids) <= Holds(t)
                                  /\ \A p \in Ids \ Db!Seated(t) : E[i][p] = 0
  BY DEF IsCall
<1>3. PICK F : /\ Course(F, b) /\ F[0] = Db!Wallets(u) /\ F[n] = Db!Wallets(v)
               /\ \A i \in 0..n : /\ SumFunctionOnSet(F[i], Ids) <= Holds(u)
                                  /\ \A p \in Ids \ Db!Seated(u) : F[i][p] = 0
  BY DEF IsCall
<1>4. /\ IsTable(u) /\ IsTable(v) /\ Db!Seated(u) \subseteq Db!Seated(t)
      /\ Db!Seated(v) \subseteq Db!Seated(u) /\ Holds(u) <= Holds(t) /\ Holds(v) <= Holds(u)
      /\ Holds(t) \in Nat /\ Holds(u) \in Nat /\ Holds(v) \in Nat
  BY HoldsType DEF IsCall
<1> HIDE DEF m, n, new
<1> DEFINE G == [i \in 0..(m + n) |-> IF i <= m THEN E[i] ELSE F[i - m]]
<1>5. \A i \in 0..(m + n) : G[i] = IF i <= m THEN E[i] ELSE F[i - m]
  OBVIOUS
<1>6. /\ E \in [0..m -> [Ids -> Nat]]
      /\ \A i \in 1..m : E[i] = [E[i-1] EXCEPT ![a[i].id] = Worth(a[i])]
      /\ F \in [0..n -> [Ids -> Nat]]
      /\ \A i \in 1..n : F[i] = [F[i-1] EXCEPT ![b[i].id] = Worth(b[i])]
  BY <1>2, <1>3 DEF Course, m, n
<1>7. G \in [0..(m + n) -> [Ids -> Nat]]
  BY <1>1, <1>6
<1> HIDE DEF G
<1>8. ASSUME NEW i \in 1..(m + n)
      PROVE  G[i] = [G[i-1] EXCEPT ![new[i].id] = Worth(new[i])]
  <2>1. CASE i <= m
    <3>1. i \in 1..m /\ i - 1 \in 0..(m + n) /\ i \in 0..(m + n) /\ i - 1 <= m
      BY <1>1, <2>1
    <3>2. G[i] = E[i] /\ G[i-1] = E[i-1] /\ new[i] = a[i]
      BY <1>1, <1>5, <2>1, <3>1
    <3> QED
      BY <1>6, <3>1, <3>2
  <2>2. CASE i > m
    <3>1. /\ i - m \in 1..n /\ i - 1 \in 0..(m + n) /\ i \in 0..(m + n) /\ ~(i <= m)
          /\ new[i] = b[i - m]
      BY <1>1, <2>2
    <3>2. G[i] = F[i - m]
      BY <1>5, <3>1
    <3>3. G[i-1] = F[(i - m) - 1]
      <4>1. CASE i - 1 = m
        <5>1. G[i-1] = E[m] /\ (i - m) - 1 = 0
          BY <1>1, <1>5, <3>1, <4>1
        <5> QED
          BY <5>1, <1>2, <1>3 DEF m
      <4>2. CASE i - 1 # m
        <5>1. ~(i - 1 <= m) /\ (i - 1) - m = (i - m) - 1
          BY <1>1, <2>2, <4>2
        <5> QED
          BY <1>5, <3>1, <5>1
      <4> QED
        BY <4>1, <4>2
    <3> QED
      BY <1>6, <3>1, <3>2, <3>3
  <2> QED
    BY <1>1, <2>1, <2>2
<1>9. /\ G[0] = Db!Wallets(t) /\ G[m + n] = Db!Wallets(v)
  <2>1. G[0] = E[0]
    BY <1>1, <1>5
  <2>2. CASE n = 0
    <3>1. G[m + n] = E[m] /\ F[n] = F[0]
      BY <1>1, <1>5, <2>2
    <3> QED
      BY <2>1, <3>1, <1>2, <1>3 DEF m, n
  <2>3. CASE n # 0
    <3>1. G[m + n] = F[n]
      BY <1>1, <1>5, <2>3
    <3> QED
      BY <2>1, <3>1, <1>2, <1>3 DEF m, n
  <2> QED
    BY <2>2, <2>3
<1>10. ASSUME NEW i \in 0..(m + n)
       PROVE  /\ SumFunctionOnSet(G[i], Ids) <= Holds(t)
              /\ \A p \in Ids \ Db!Seated(t) : G[i][p] = 0
  <2>1. CASE i <= m
    <3>1. i \in 0..m /\ G[i] = E[i]
      BY <1>1, <1>5, <2>1
    <3> QED
      BY <1>2, <3>1 DEF m
  <2>2. CASE i > m
    <3>1. i - m \in 0..n /\ G[i] = F[i - m]
      BY <1>1, <1>5, <2>2
    <3>2. SumFunctionOnSet(F[i - m], Ids) <= Holds(u) /\ F[i - m] \in [Ids -> Nat]
      BY <1>3, <1>6, <3>1 DEF n
    <3>3. SumFunctionOnSet(F[i - m], Ids) \in Nat
      BY <3>2, SumType, IdsAssumption
    <3>4. \A p \in Ids \ Db!Seated(u) : F[i - m][p] = 0
      BY <1>3, <3>1 DEF n
    <3> QED
      BY <1>4, <3>1, <3>2, <3>3, <3>4
  <2> QED
    BY <1>1, <2>1, <2>2
<1>11. \A i \in 1..(m + n) : new[i].id \in Db!Seated(t)
  <2>1. /\ \A i \in 1..m : a[i].id \in Db!Seated(t)
        /\ \A i \in 1..n : b[i].id \in Db!Seated(u)
    BY DEF IsCall, m, n
  <2>2. \A i \in 1..(m + n) : i <= m => new[i] = a[i] /\ i \in 1..m
    BY <1>1
  <2>3. \A i \in 1..(m + n) : i <= m \/ i > m
    BY <1>1
  <2> QED
    BY <1>1, <1>4, <2>1, <2>2, <2>3
<1>12. ASSUME NEW p \in Db!Seated(v)
       PROVE  \/ Writes(new, p, v.wallet[p])
              \/ Spares(new, p) /\ v.wallet[p] = t.wallet[p]
  <2>1. /\ Writes(b, p, v.wallet[p]) \/ (Spares(b, p) /\ v.wallet[p] = u.wallet[p])
        /\ Writes(a, p, u.wallet[p]) \/ (Spares(a, p) /\ u.wallet[p] = t.wallet[p])
    BY <1>4 DEF IsCall
  <2> QED
    BY <1>1, <2>1, WrittenAfter DEF new
<1>13. Course(G, new)
  BY <1>1, <1>7, <1>8 DEF Course
<1>14. /\ Course(G, new) /\ G[0] = Db!Wallets(t) /\ G[Len(new)] = Db!Wallets(v)
       /\ \A i \in 0..Len(new) : /\ SumFunctionOnSet(G[i], Ids) <= Holds(t)
                                 /\ \A p \in Ids \ Db!Seated(t) : G[i][p] = 0
  BY <1>1, <1>9, <1>10, <1>13
<1>15. /\ IsTable(v) /\ Db!Seated(v) \subseteq Db!Seated(t) /\ Holds(v) <= Holds(t)
       /\ new \in Seq(ThreadKinds) /\ \A i \in 1..Len(new) : new[i].id \in Db!Seated(t)
  BY <1>1, <1>4, <1>11
<1> QED
  BY <1>12, <1>14, <1>15 DEF IsCall, new

\* What the wallets of a table are worth is part of what it holds.
LEMMA WalletsWithin ==
  ASSUME NEW t, IsTable(t)
  PROVE  SumFunctionOnSet(Db!Wallets(t), Ids) <= Holds(t)
BY HoldsType DEF Holds, IsTable

\* A call that spawns no thread changes no wallet.
LEMMA QuietCall ==
  ASSUME NEW t, NEW u, IsTable(t), IsTable(u), u.wallet = t.wallet, u.pot <= t.pot
  PROVE  IsCall(t, u, <<>>)
<1> DEFINE E == [i \in 0..0 |-> Db!Wallets(t)]
<1>1. Db!Seated(u) = Db!Seated(t) /\ Db!Wallets(u) = Db!Wallets(t)
  BY DEF Db!Seated, Db!Wallets
<1>2. <<>> \in Seq(ThreadKinds) /\ Len(<<>>) = 0
  BY EmptySeq
<1>3. Holds(u) <= Holds(t)
  BY <1>1, HoldsType DEF Holds, IsTable
<1>4. Course(E, <<>>) /\ E[0] = Db!Wallets(t)
  BY <1>2, HoldsType DEF Course
<1>5. \A i \in 0..0 : /\ SumFunctionOnSet(E[i], Ids) <= Holds(t)
                      /\ \A p \in Ids \ Db!Seated(t) : E[i][p] = 0
  BY WalletsWithin DEF Db!Wallets
<1>6. \A p \in Db!Seated(u) : Spares(<<>>, p) /\ u.wallet[p] = t.wallet[p]
  BY <1>2 DEF Spares
<1> HIDE DEF E
<1>7. \E F : /\ Course(F, <<>>) /\ F[0] = Db!Wallets(t) /\ F[0] = Db!Wallets(u)
             /\ \A i \in 0..0 : /\ SumFunctionOnSet(F[i], Ids) <= Holds(t)
                                /\ \A p \in Ids \ Db!Seated(t) : F[i][p] = 0
  BY <1>1, <1>4, <1>5
<1> QED
  BY <1>1, <1>2, <1>3, <1>6, <1>7 DEF IsCall

\* A call that spawns one thread.
LEMMA OneThread ==
  ASSUME NEW t, NEW u, IsTable(t), IsTable(u), NEW th \in ThreadKinds, th.id \in Db!Seated(t),
         Db!Seated(u) \subseteq Db!Seated(t), Holds(u) <= Holds(t),
         Db!Wallets(u) = [Db!Wallets(t) EXCEPT ![th.id] = Worth(th)],
         \A p \in Db!Seated(u) :
           IF p = th.id THEN th = Db!Upsert(p, u.wallet[p]) ELSE u.wallet[p] = t.wallet[p]
  PROVE  IsCall(t, u, <<th>>)
<1> DEFINE E == [i \in 0..1 |-> IF i = 0 THEN Db!Wallets(t) ELSE Db!Wallets(u)]
           new == <<th>>
<1>1. new \in Seq(ThreadKinds) /\ Len(new) = 1 /\ new[1] = th
  OBVIOUS
<1> HIDE DEF new
<1>2. E[0] = Db!Wallets(t) /\ E[1] = Db!Wallets(u) /\ E \in [0..1 -> [Ids -> Nat]]
  <2>1. Db!Wallets(t) \in [Ids -> Nat] /\ Db!Wallets(u) \in [Ids -> Nat]
    BY HoldsType
  <2>2. 0 \in 0..1 /\ 1 \in 0..1 /\ 1 # 0
    OBVIOUS
  <2> QED
    BY <2>1, <2>2
<1> HIDE DEF E
<1>3. Course(E, new)
  <2>1. \A i \in 1..1 : i = 1 /\ i - 1 = 0
    OBVIOUS
  <2>2. E[1] = [E[0] EXCEPT ![new[1].id] = Worth(new[1])]
    BY <1>1, <1>2
  <2>3. \A i \in 1..1 : E[i] = [E[i-1] EXCEPT ![new[i].id] = Worth(new[i])]
    BY <2>1, <2>2
  <2> QED
    BY <1>1, <1>2, <2>3 DEF Course
<1>4. ASSUME NEW i \in 0..1
      PROVE  /\ SumFunctionOnSet(E[i], Ids) <= Holds(t)
             /\ \A p \in Ids \ Db!Seated(t) : E[i][p] = 0
  <2>1. SumFunctionOnSet(Db!Wallets(u), Ids) <= Holds(t)
    <3>1. /\ SumFunctionOnSet(Db!Wallets(u), Ids) \in Nat /\ Holds(u) \in Nat
          /\ Holds(t) \in Nat
      BY HoldsType
    <3>2. SumFunctionOnSet(Db!Wallets(u), Ids) <= Holds(u)
      BY WalletsWithin
    <3> QED
      BY <3>1, <3>2
  <2>2. \A p \in Ids \ Db!Seated(t) : Db!Wallets(t)[p] = 0 /\ Db!Wallets(u)[p] = 0
    BY DEF Db!Wallets
  <2>3. i = 0 \/ i = 1
    OBVIOUS
  <2>4. CASE i = 0
    BY <1>2, <2>2, <2>4, WalletsWithin
  <2>5. CASE i = 1
    BY <1>2, <2>1, <2>2, <2>5
  <2> QED
    BY <2>3, <2>4, <2>5
<1>5. ASSUME NEW p \in Db!Seated(u)
      PROVE  \/ Writes(new, p, u.wallet[p])
             \/ Spares(new, p) /\ u.wallet[p] = t.wallet[p]
  <2>1. \A i \in 1..1 : i = 1
    OBVIOUS
  <2>2. CASE p = th.id
    BY <1>1, <2>1, <2>2 DEF Writes
  <2>3. CASE p # th.id
    BY <1>1, <2>1, <2>3 DEF Spares
  <2> QED
    BY <2>2, <2>3
<1>6. \A i \in 1..1 : new[i].id \in Db!Seated(t)
  BY <1>1
<1>7. \E F : /\ Course(F, new) /\ F[0] = Db!Wallets(t) /\ F[1] = Db!Wallets(u)
             /\ \A i \in 0..1 : /\ SumFunctionOnSet(F[i], Ids) <= Holds(t)
                                /\ \A p \in Ids \ Db!Seated(t) : F[i][p] = 0
  <2>1. /\ Course(E, new) /\ E[0] = Db!Wallets(t) /\ E[1] = Db!Wallets(u)
        /\ \A i \in 0..1 : /\ SumFunctionOnSet(E[i], Ids) <= Holds(t)
                           /\ \A p \in Ids \ Db!Seated(t) : E[i][p] = 0
    BY <1>2, <1>3, <1>4
  <2> QED
    BY <2>1
<1>8. IsCall(t, u, new)
  BY <1>1, <1>5, <1>6, <1>7 DEF IsCall
<1> QED
  BY <1>8 DEF new

\* A bet is one upsert, of a wallet that the pot takes chips from.
LEMMA PaidCall ==
  ASSUME NEW t, IsTable(t), NEW p \in Db!Seated(t), NEW chips \in 0..t.wallet[p]
  PROVE  LET u == Db!PaidBy(t, p, chips)
         IN IsTable(u) /\ u.wallet[p] \in Nat /\ IsCall(t, u, <<Db!Upsert(p, u.wallet[p])>>)
<1> DEFINE u  == Db!PaidBy(t, p, chips)
           th == Db!Upsert(p, u.wallet[p])
<1>1. /\ p \in Ids /\ t.wallet[p] \in Nat /\ chips \in Nat /\ chips <= t.wallet[p]
      /\ t.wallet[p] - chips \in Nat /\ t.pot + chips \in Nat
  BY DEF IsTable
<1>2. /\ u = [wallet |-> [t.wallet EXCEPT ![p] = t.wallet[p] - chips],
              ring |-> t.ring, live |-> t.live, pot |-> t.pot + chips]
      /\ DOMAIN u.wallet = DOMAIN t.wallet
      /\ \A q \in DOMAIN t.wallet :
           u.wallet[q] = IF q = p THEN t.wallet[p] - chips ELSE t.wallet[q]
  <2>1. t = [wallet |-> t.wallet, ring |-> t.ring, live |-> t.live, pot |-> t.pot]
        /\ t.wallet = [q \in DOMAIN t.wallet |-> t.wallet[q]] /\ p \in DOMAIN t.wallet
    BY DEF IsTable, Db!Seated
  <2>2. u = [wallet |-> [t.wallet EXCEPT ![p] = t.wallet[p] - chips],
             ring |-> t.ring, live |-> t.live, pot |-> t.pot + chips]
    <3>1. [t EXCEPT !.wallet[p] = @ - chips]
            = [wallet |-> [t.wallet EXCEPT ![p] = t.wallet[p] - chips],
               ring |-> t.ring, live |-> t.live, pot |-> t.pot]
      BY <2>1
    <3>2. u = [[t EXCEPT !.wallet[p] = @ - chips] EXCEPT !.pot = @ + chips]
      BY <2>1 DEF Db!PaidBy
    <3> QED
      BY <3>1, <3>2
  <2> QED
    BY <2>1, <2>2
<1> HIDE DEF u
<1>3. IsTable(u) /\ Db!Seated(u) = Db!Seated(t) /\ u.wallet[p] = t.wallet[p] - chips
  BY <1>1, <1>2 DEF IsTable, Db!Seated
<1>4. Db!Wallets(u) = [Db!Wallets(t) EXCEPT ![p] = u.wallet[p]]
  BY <1>1, <1>2, <1>3 DEF Db!Wallets, Db!Seated
<1>5. Holds(u) = Holds(t)
  <2>1. Db!Wallets(t) \in [Ids -> Nat] /\ Db!Wallets(u) \in [Ids -> Nat]
    BY <1>3, HoldsType
  <2>2. \A q \in Ids : q # p => Db!Wallets(u)[q] = Db!Wallets(t)[q]
    BY <1>4, <2>1
  <2>3. Db!Wallets(t)[p] = t.wallet[p] /\ Db!Wallets(u)[p] = t.wallet[p] - chips
    BY <1>1, <1>3 DEF Db!Wallets
  <2>4. /\ SumFunctionOnSet(Db!Wallets(t), Ids) \in Nat
        /\ SumFunctionOnSet(Db!Wallets(u), Ids) \in Nat
        /\ SumFunctionOnSet(Db!Wallets(u), Ids) + Db!Wallets(t)[p]
             = SumFunctionOnSet(Db!Wallets(t), Ids) + Db!Wallets(u)[p]
    BY <1>1, <2>1, <2>2, SumChange, IdsAssumption
  <2>5. t.pot \in Nat /\ u.pot = t.pot + chips
    BY <1>2 DEF IsTable
  <2> QED
    BY <1>1, <2>3, <2>4, <2>5 DEF Holds
<1>6. /\ th \in ThreadKinds /\ th.id = p /\ Worth(th) = u.wallet[p]
      /\ Db!Upsert(p, u.wallet[p]) = th
  BY <1>1, <1>3 DEF ThreadKinds, Db!Upsert, Worth
<1> HIDE DEF th
<1>7. \A q \in Db!Seated(u) :
        IF q = th.id THEN th = Db!Upsert(q, u.wallet[q]) ELSE u.wallet[q] = t.wallet[q]
  BY <1>2, <1>3, <1>6 DEF Db!Seated
<1>8. IsCall(t, u, <<th>>)
  <2>1. Holds(u) <= Holds(t)
    BY <1>5, HoldsType
  <2> QED
    BY <1>3, <1>4, <1>6, <1>7, <2>1, OneThread
<1> QED
  BY <1>1, <1>3, <1>6, <1>8 DEF u

\* The upsert of a wallet that has not changed.
LEMMA SameCall ==
  ASSUME NEW t, IsTable(t), NEW p \in Db!Seated(t)
  PROVE  IsCall(t, t, <<Db!Upsert(p, t.wallet[p])>>)
<1>1. p \in Ids /\ t.wallet[p] \in Nat
  BY DEF IsTable
<1> DEFINE th == Db!Upsert(p, t.wallet[p])
<1>2. /\ th \in ThreadKinds /\ th.id = p /\ Worth(th) = t.wallet[p]
      /\ Db!Upsert(p, t.wallet[p]) = th
  BY <1>1 DEF ThreadKinds, Db!Upsert, Worth
<1> HIDE DEF th
<1>3. Db!Wallets(t) = [Db!Wallets(t) EXCEPT ![p] = t.wallet[p]]
  BY <1>1 DEF Db!Wallets
<1>4. Holds(t) <= Holds(t)
  BY HoldsType
<1> QED
  BY <1>2, <1>3, <1>4, OneThread

\* The delete of a player who goes.
LEMMA GoneCall ==
  ASSUME NEW t, IsTable(t), NEW p \in Db!Seated(t), p \notin t.ring
  PROVE  IsTable(Db!Without(t, {p})) /\ IsCall(t, Db!Without(t, {p}), <<Db!Delete(p)>>)
<1> DEFINE u  == Db!Without(t, {p})
           th == Db!Delete(p)
<1>1. p \in Ids
  BY DEF IsTable
<1>2. /\ u = [wallet |-> [q \in DOMAIN t.wallet \ {p} |-> t.wallet[q]],
              ring |-> t.ring, live |-> t.live, pot |-> t.pot]
  <2>1. t = [wallet |-> t.wallet, ring |-> t.ring, live |-> t.live, pot |-> t.pot]
    BY DEF IsTable
  <2>2. u = [t EXCEPT !.wallet = [q \in DOMAIN t.wallet \ {p} |-> t.wallet[q]]]
    BY DEF Db!Without, Db!Cut, Db!Restrict
  <2> QED
    BY <2>1, <2>2
<1> HIDE DEF u
<1>3. /\ u.wallet = [q \in DOMAIN t.wallet \ {p} |-> t.wallet[q]]
      /\ u.ring = t.ring /\ u.live = t.live /\ u.pot = t.pot
  BY <1>2
<1>4. /\ Db!Seated(u) = Db!Seated(t) \ {p}
      /\ \A q \in Db!Seated(u) : u.wallet[q] = t.wallet[q]
  BY <1>3 DEF Db!Seated
<1>5. IsTable(u)
  <2>1. u = [wallet |-> u.wallet, ring |-> u.ring, live |-> u.live, pot |-> u.pot]
    BY <1>2
  <2>2. u.wallet = [q \in DOMAIN u.wallet |-> u.wallet[q]]
    BY <1>3
  <2> QED
    BY <1>3, <1>4, <2>1, <2>2 DEF IsTable
<1>6. Db!Wallets(u) = [Db!Wallets(t) EXCEPT ![p] = 0]
  BY <1>1, <1>4 DEF Db!Wallets
<1>7. Holds(u) <= Holds(t)
  <2>1. Db!Wallets(t) \in [Ids -> Nat] /\ Db!Wallets(u) \in [Ids -> Nat]
    BY <1>5, HoldsType
  <2>2. \A q \in Ids : Db!Wallets(u)[q] <= Db!Wallets(t)[q]
    BY <1>6, <2>1
  <2>3. SumFunctionOnSet(Db!Wallets(u), Ids) <= SumFunctionOnSet(Db!Wallets(t), Ids)
    BY <2>1, <2>2, SumMonotone, IdsAssumption
  <2>4. /\ SumFunctionOnSet(Db!Wallets(u), Ids) \in Nat
        /\ SumFunctionOnSet(Db!Wallets(t), Ids) \in Nat
    BY <1>5, HoldsType
  <2>5. t.pot \in Nat
    BY DEF IsTable
  <2> QED
    BY <1>3, <2>3, <2>4, <2>5 DEF Holds
<1>8. th \in ThreadKinds /\ th.id = p /\ Worth(th) = 0 /\ Db!Delete(p) = th
  BY <1>1 DEF ThreadKinds, Db!Delete, Worth
<1> HIDE DEF th
<1>9. \A q \in Db!Seated(u) : q # p /\ u.wallet[q] = t.wallet[q]
  BY <1>4
<1>10. IsCall(t, u, <<th>>)
  BY <1>4, <1>5, <1>6, <1>7, <1>8, <1>9, OneThread
<1> QED
  BY <1>5, <1>8, <1>10 DEF u

\* The chips that an ended hand pays to those who have not folded are its pot.
LEMMA GainsArePot ==
  ASSUME NEW t, IsTable(t), NEW paid \in Db!Payouts(t), NEW gain,
         gain = [p \in Ids |-> IF p \in t.live THEN paid[p] ELSE 0]
  PROVE  gain \in [Ids -> Nat] /\ SumFunctionOnSet(gain, Ids) = t.pot
<1>1. /\ paid \in [t.live -> 0..t.pot] /\ SumFunctionOnSet(paid, t.live) = t.pot
      /\ t.live \subseteq Ids /\ t.pot \in Nat
  BY SameSum DEF Db!Payouts, IsTable
<1>2. gain \in [Ids -> Nat]
  BY <1>1
<1>3. IsFiniteSet(Ids) /\ IsFiniteSet(t.live) /\ IsFiniteSet(Ids \ t.live)
  BY <1>1, FS_Subset, IdsAssumption
<1>4. SumFunctionOnSet(gain, t.live) = SumFunctionOnSet(paid, t.live)
  <2>1. \A p \in t.live : paid[p] \in Nat /\ gain[p] = paid[p]
    BY <1>1
  <2> QED
    BY <1>3, <2>1, SumSame
<1>5. SumFunctionOnSet(gain, Ids \ t.live) = 0
  <2>1. \A p \in Ids \ t.live : gain[p] = 0
    OBVIOUS
  <2>2. SumFunctionOnSet(gain, Ids \ t.live) = 0 * Cardinality(Ids \ t.live)
    BY <1>3, <2>1, SumConstant
  <2> QED
    BY <1>3, <2>2, FS_CardinalityType
<1>6. SumFunctionOnSet(gain, Ids)
        = SumFunctionOnSet(gain, t.live) + SumFunctionOnSet(gain, Ids \ t.live)
  BY <1>1, <1>2, <1>3, SumUnion
<1> QED
  BY <1>1, <1>2, <1>4, <1>5, <1>6

\* The threads of end_game write everybody's wallet, with what the hand pays.
LEMMA EndedCall ==
  ASSUME NEW t, IsTable(t), NEW paid \in Db!Payouts(t),
         NEW order \in Db!SetToSeqs(Db!Seated(t))
  PROVE  LET u   == Db!AfterHand(t, paid)
             new == Db!EndThreads(t, paid, order)
         IN /\ IsTable(u) /\ Db!Seated(u) = Db!Seated(t) /\ u.ring = {} /\ IsCall(t, u, new)
            /\ \A i \in 1..Len(new) : new[i].wallet = u.wallet[new[i].id]
            /\ \A p \in Db!Seated(t) : p \notin t.live => u.wallet[p] = t.wallet[p]
<1> DEFINE u   == Db!AfterHand(t, paid)
           new == Db!EndThreads(t, paid, order)
           n   == Len(order)
           gain == [p \in Ids |-> IF p \in t.live THEN paid[p] ELSE 0]
           W == Db!Wallets(t)
           V == Db!Wallets(u)
           Done(i, p) == \E j \in 1..i : order[j] = p
           E == [i \in 0..n |-> [p \in Ids |-> IF Done(i, p) THEN V[p] ELSE W[p]]]
<1>1. gain \in [Ids -> Nat] /\ SumFunctionOnSet(gain, Ids) = t.pot
  BY GainsArePot
<1>2. /\ t = [wallet |-> t.wallet, ring |-> t.ring, live |-> t.live, pot |-> t.pot]
      /\ t.wallet = [p \in DOMAIN t.wallet |-> t.wallet[p]]
      /\ DOMAIN t.wallet \subseteq Ids /\ \A p \in DOMAIN t.wallet : t.wallet[p] \in Nat
      /\ t.live \subseteq Ids /\ t.pot \in Nat
  BY DEF IsTable, Db!Seated
<1>3. paid \in [t.live -> Nat]
  BY DEF Db!Payouts, IsTable
<1>4. u = [wallet |-> [p \in DOMAIN t.wallet |->
                         IF p \in t.live THEN t.wallet[p] + paid[p] ELSE t.wallet[p]],
           ring |-> {}, live |-> {}, pot |-> 0]
  <2> DEFINE w == [p \in DOMAIN t.wallet |->
                     IF p \in t.live THEN t.wallet[p] + paid[p] ELSE t.wallet[p]]
  <2>1. u = [t EXCEPT !.wallet = w, !.ring = {}, !.live = {}, !.pot = 0]
    BY DEF Db!AfterHand
  <2> HIDE DEF w, u
  <2>2. u = [wallet |-> w, ring |-> {}, live |-> {}, pot |-> 0]
    BY <1>2, <2>1
  <2> QED
    BY <2>2 DEF w
<1> HIDE DEF u
<1>5. /\ u.wallet = [p \in DOMAIN t.wallet |->
                       IF p \in t.live THEN t.wallet[p] + paid[p] ELSE t.wallet[p]]
      /\ u.ring = {} /\ u.live = {} /\ u.pot = 0
  BY <1>4
<1>6. /\ IsTable(u) /\ Db!Seated(u) = Db!Seated(t)
  <2>1. DOMAIN u.wallet = DOMAIN t.wallet /\ u.wallet = [p \in DOMAIN u.wallet |-> u.wallet[p]]
    BY <1>5
  <2>2. \A p \in DOMAIN u.wallet : u.wallet[p] \in Nat
    BY <1>2, <1>3, <1>5
  <2>3. u = [wallet |-> u.wallet, ring |-> u.ring, live |-> u.live, pot |-> u.pot]
    BY <1>4
  <2> QED
    BY <1>2, <1>5, <2>1, <2>2, <2>3 DEF IsTable, Db!Seated
<1>7. /\ W \in [Ids -> Nat] /\ V \in [Ids -> Nat]
      /\ \A p \in Db!Seated(t) : W[p] = t.wallet[p] /\ V[p] = u.wallet[p]
      /\ \A p \in Ids \ Db!Seated(t) : W[p] = 0 /\ V[p] = 0
  <2>1. W \in [Ids -> Nat] /\ V \in [Ids -> Nat]
    BY <1>6, HoldsType
  <2> QED
    BY <1>2, <1>6, <2>1 DEF Db!Wallets, Db!Seated
<1>8. \A p \in Ids : V[p] <= W[p] + gain[p]
  <2>1. \A p \in Ids \ Db!Seated(t) : V[p] <= W[p] + gain[p]
    BY <1>1, <1>7
  <2>2. ASSUME NEW p \in Db!Seated(t)
        PROVE  V[p] <= W[p] + gain[p]
    <3>1. p \in DOMAIN t.wallet /\ p \in Ids
      BY <1>2 DEF Db!Seated
    <3>2. V[p] = IF p \in t.live THEN t.wallet[p] + paid[p] ELSE t.wallet[p]
      BY <1>5, <1>7, <3>1
    <3> QED
      BY <1>2, <1>3, <1>7, <3>1, <3>2
  <2> QED
    BY <2>1, <2>2
<1> HIDE DEF W, V, gain
<1>9. /\ order \in Seq(Db!Seated(t)) /\ n \in Nat /\ DOMAIN order = 1..n
      /\ \A i \in 1..n : order[i] \in Db!Seated(t) /\ order[i] \in Ids
      /\ \A i, j \in 1..n : i # j => order[i] # order[j]
      /\ \A p \in Db!Seated(t) : \E i \in 1..n : order[i] = p
  <2>1. IsFiniteSet(Db!Seated(t)) /\ Db!Seated(t) \subseteq Ids
    BY FS_Subset, IdsAssumption DEF IsTable
  <2>2. /\ order \in Seq(Db!Seated(t)) /\ DOMAIN order = 1..n
        /\ \A i, j \in 1..n : i # j => order[i] # order[j]
        /\ \A p \in Db!Seated(t) : \E i \in 1..n : order[i] = p
    BY <2>1, OrderedSet
  <2>3. n \in Nat /\ \A i \in 1..n : order[i] \in Db!Seated(t)
    BY <2>2, LenProperties, ElementOfSeq
  <2> QED
    BY <2>1, <2>2, <2>3
<1> HIDE DEF n
<1>10. /\ new = [i \in 1..n |-> Db!Upsert(order[i], u.wallet[order[i]])]
       /\ new \in Seq(ThreadKinds) /\ Len(new) = n
       /\ \A i \in 1..n : new[i] = Db!Upsert(order[i], u.wallet[order[i]])
  <2>1. new = [i \in 1..n |-> Db!Upsert(order[i], u.wallet[order[i]])]
    BY <1>9 DEF Db!EndThreads, u
  <2>2. \A i \in 1..n : Db!Upsert(order[i], u.wallet[order[i]]) \in ThreadKinds
    BY <1>6, <1>9 DEF ThreadKinds, Db!Upsert, IsTable
  <2>3. [i \in 1..n |-> Db!Upsert(order[i], u.wallet[order[i]])] \in Seq(ThreadKinds)
    BY <1>9, <2>2, IsASeq
  <2>4. new \in Seq(ThreadKinds) /\ DOMAIN new = 1..n
    BY <2>1, <2>3
  <2>5. Len(new) = n
    BY <1>9, <2>4, LenProperties
  <2> QED
    BY <2>1, <2>4, <2>5
<1> HIDE DEF new
<1>11. \A i \in 1..n : /\ new[i].id = order[i] /\ new[i].op = "upsert"
                       /\ new[i].wallet = u.wallet[order[i]] /\ Worth(new[i]) = V[order[i]]
  BY <1>7, <1>9, <1>10 DEF Db!Upsert, Worth
<1> HIDE DEF Done
<1>12. \A i \in 0..n : \A p \in Ids : E[i][p] = IF Done(i, p) THEN V[p] ELSE W[p]
  OBVIOUS
<1>13. E \in [0..n -> [Ids -> Nat]]
  BY <1>7
<1> HIDE DEF E
<1>14. ASSUME NEW i \in 1..n
       PROVE  E[i] = [E[i-1] EXCEPT ![new[i].id] = Worth(new[i])]
  <2>1. i - 1 \in 0..n /\ i \in 0..n /\ order[i] \in Ids
    BY <1>9
  <2>2. E[i-1] \in [Ids -> Nat] /\ E[i] \in [Ids -> Nat]
    BY <1>13, <2>1
  <2>3. \A p \in Ids : E[i][p] = IF p = order[i] THEN V[p] ELSE E[i-1][p]
    <3>1. \A j \in 1..i : j = i \/ j \in 1..(i - 1)
      BY <1>9
    <3>2. \A j \in 1..(i - 1) : j \in 1..i
      BY <1>9
    <3>3. i \in 1..i
      BY <1>9
    <3>4. ASSUME NEW p \in Ids
          PROVE  E[i][p] = IF p = order[i] THEN V[p] ELSE E[i-1][p]
      <4>1. /\ E[i][p] = IF Done(i, p) THEN V[p] ELSE W[p]
            /\ E[i-1][p] = IF Done(i - 1, p) THEN V[p] ELSE W[p]
        BY <1>12, <2>1
      <4>2. CASE p = order[i]
        BY <3>3, <4>1, <4>2 DEF Done
      <4>3. CASE p # order[i]
        <5>1. Done(i, p) <=> Done(i - 1, p)
          BY <3>1, <3>2, <4>3 DEF Done
        <5> QED
          BY <4>1, <4>3, <5>1
      <4> QED
        BY <4>2, <4>3
    <3> QED
      BY <3>4
  <2> QED
    BY <1>11, <2>1, <2>2, <2>3
<1>15. E[0] = W /\ E[n] = V
  <2>1. 0 \in 0..n /\ n \in 0..n /\ 1..0 = {}
    BY <1>9
  <2>2. \A p \in Ids : E[0][p] = W[p] /\ E[n][p] = V[p]
    <3>1. \A p \in Ids : E[0][p] = W[p]
      BY <1>12, <2>1 DEF Done
    <3>2. ASSUME NEW p \in Ids
          PROVE  E[n][p] = V[p]
      <4>1. E[n][p] = IF Done(n, p) THEN V[p] ELSE W[p]
        BY <1>12, <2>1
      <4>2. CASE p \in Db!Seated(t)
        BY <1>9, <4>1, <4>2 DEF Done
      <4>3. CASE p \notin Db!Seated(t)
        BY <1>7, <4>1, <4>3
      <4> QED
        BY <4>2, <4>3
    <3> QED
      BY <3>1, <3>2
  <2>3. E[0] \in [Ids -> Nat] /\ E[n] \in [Ids -> Nat]
    BY <1>13, <2>1
  <2> QED
    BY <1>7, <2>2, <2>3
<1>16. Holds(t) = SumFunctionOnSet(W, Ids) + t.pot /\ SumFunctionOnSet(W, Ids) \in Nat
       /\ Holds(t) \in Nat
  BY <1>2, HoldsType DEF Holds, W
<1>17. ASSUME NEW f \in [Ids -> Nat], \A p \in Ids : f[p] <= W[p] + gain[p]
       PROVE  SumFunctionOnSet(f, Ids) <= Holds(t)
  <2>1. SumFunctionOnSet(f, Ids) <= SumFunctionOnSet(W, Ids) + SumFunctionOnSet(gain, Ids)
    BY <1>1, <1>7, <1>17, SumOfTwo, IdsAssumption
  <2> QED
    BY <1>1, <1>16, <2>1
<1>18. ASSUME NEW i \in 0..n
       PROVE  /\ SumFunctionOnSet(E[i], Ids) <= Holds(t)
              /\ \A p \in Ids \ Db!Seated(t) : E[i][p] = 0
  <2>1. E[i] \in [Ids -> Nat] /\ \A p \in Ids : E[i][p] = V[p] \/ E[i][p] = W[p]
    BY <1>12, <1>13
  <2>2. \A p \in Ids : E[i][p] <= W[p] + gain[p]
    <3>1. \A p \in Ids : gain[p] \in Nat /\ W[p] \in Nat
      BY <1>1, <1>7
    <3>2. \A p \in Ids : W[p] <= W[p] + gain[p]
      BY <3>1
    <3>3. ASSUME NEW p \in Ids
          PROVE  E[i][p] <= W[p] + gain[p]
      <4>1. E[i][p] = V[p] \/ E[i][p] = W[p]
        BY <2>1
      <4> QED
        BY <1>8, <3>2, <4>1, Zenon
    <3> QED
      BY <3>3
  <2>3. \A p \in Ids \ Db!Seated(t) : E[i][p] = 0
    BY <1>7, <2>1
  <2> QED
    BY <1>17, <2>1, <2>2, <2>3
<1>19. Holds(u) <= Holds(t)
  <2>1. SumFunctionOnSet(V, Ids) <= Holds(t) /\ SumFunctionOnSet(V, Ids) \in Nat
    BY <1>7, <1>8, <1>17, SumType, IdsAssumption
  <2> QED
    BY <1>5, <2>1 DEF Holds, V
<1>20. ASSUME NEW p \in Db!Seated(u)
       PROVE  Writes(new, p, u.wallet[p])
  <2>1. PICK i \in 1..n : order[i] = p
    BY <1>6, <1>9
  <2>2. new[i] = Db!Upsert(p, u.wallet[p])
    BY <1>10, <2>1
  <2>3. \A j \in 1..n : j > i => new[j].id # p
    BY <1>9, <1>11, <2>1
  <2> QED
    BY <1>10, <2>2, <2>3 DEF Writes
<1>21. Course(E, new)
  BY <1>10, <1>13, <1>14 DEF Course
<1>22. /\ Course(E, new) /\ E[0] = Db!Wallets(t) /\ E[Len(new)] = Db!Wallets(u)
       /\ \A i \in 0..Len(new) : /\ SumFunctionOnSet(E[i], Ids) <= Holds(t)
                                 /\ \A p \in Ids \ Db!Seated(t) : E[i][p] = 0
  BY <1>10, <1>15, <1>18, <1>21 DEF W, V
<1>23. \A i \in 1..n : new[i].id \in Db!Seated(t)
  BY <1>9, <1>11
<1>24. IsCall(t, u, new)
  BY <1>6, <1>10, <1>19, <1>20, <1>22, <1>23 DEF IsCall
<1>25. \A i \in 1..Len(new) : new[i].wallet = u.wallet[new[i].id]
  <2>1. \A i \in 1..n : new[i].wallet = u.wallet[new[i].id]
    BY <1>11
  <2> QED
    BY <1>10, <2>1
<1>26. \A p \in Db!Seated(t) : p \notin t.live => u.wallet[p] = t.wallet[p]
  BY <1>5 DEF Db!Seated
<1> QED
  BY <1>5, <1>6, <1>24, <1>25, <1>26 DEF u, new

\* The threads of a call write wallets that the table had before or has after.
Recalled(t, u, new) ==
  \A i \in 1..Len(new) : new[i].op = "upsert" =>
    \/ new[i].id \in Db!Seated(t) /\ new[i].wallet = t.wallet[new[i].id]
    \/ new[i].id \in Db!Seated(u) /\ new[i].wallet = u.wallet[new[i].id]

LEMMA RecalledThen ==
  ASSUME NEW t, NEW u, NEW a \in Seq(ThreadKinds), NEW b \in Seq(ThreadKinds),
         Recalled(t, u, a), Recalled(t, u, b)
  PROVE  Recalled(t, u, a \o b)
<1> DEFINE new == a \o b
<1>1. /\ Len(a) \in Nat /\ Len(b) \in Nat /\ Len(new) = Len(a) + Len(b)
      /\ \A i \in 1..(Len(a) + Len(b)) : new[i] = IF i <= Len(a) THEN a[i] ELSE b[i - Len(a)]
  BY LenProperties, ConcatProperties
<1> HIDE DEF new
<1>2. ASSUME NEW i \in 1..Len(new)
      PROVE  \/ \E j \in 1..Len(a) : new[i] = a[j]
             \/ \E j \in 1..Len(b) : new[i] = b[j]
  <2>1. CASE i <= Len(a)
    BY <1>1, <2>1
  <2>2. CASE ~(i <= Len(a))
    <3>1. new[i] = b[i - Len(a)] /\ i - Len(a) \in 1..Len(b)
      BY <1>1, <2>2
    <3> QED
      BY <3>1
  <2> QED
    BY <2>1, <2>2
<1>3. Recalled(t, u, new)
  BY <1>2 DEF Recalled
<1> QED
  BY <1>3 DEF new

LEMMA RecalledOne ==
  ASSUME NEW t, NEW u, NEW th,
         th.op = "upsert" =>
           \/ th.id \in Db!Seated(t) /\ th.wallet = t.wallet[th.id]
           \/ th.id \in Db!Seated(u) /\ th.wallet = u.wallet[th.id]
  PROVE  Recalled(t, u, <<th>>)
<1>1. Len(<<th>>) = 1 /\ <<th>>[1] = th /\ \A i \in 1..1 : i = 1
  OBVIOUS
<1> QED
  BY <1>1 DEF Recalled

\* What a step is that calls a method of table k.
IsCalled(k, u, new) ==
  /\ Db!Becomes(k, u, new) /\ IsCall(tables[k], u, new) /\ Recalled(tables[k], u, new)

LEMMA OneUpsertKind ==
  ASSUME NEW p \in Ids, NEW w \in Nat
  PROVE  /\ Db!Upsert(p, w) \in ThreadKinds /\ <<Db!Upsert(p, w)>> \in Seq(ThreadKinds)
         /\ Db!Delete(p) \in ThreadKinds /\ <<Db!Delete(p)>> \in Seq(ThreadKinds)
         /\ <<>> \in Seq(ThreadKinds)
<1>1. Db!Upsert(p, w) \in ThreadKinds /\ Db!Delete(p) \in ThreadKinds
  BY DEF ThreadKinds, Db!Upsert, Db!Delete
<1> QED
  BY <1>1

\* A bet is a call with one thread.
LEMMA BetCalled ==
  ASSUME NEW k, IsTable(tables[k]), NEW p, Db!Bet(k, p)
  PROVE  \E u, new : IsCalled(k, u, new)
<1> DEFINE t == tables[k]
<1>1. PICK chips : LET u == Db!PaidBy(t, p, chips)
                   IN chips \in 1..t.wallet[p] /\ Db!Becomes(k, u, <<Db!Upsert(p, u.wallet[p])>>)
  BY DEF Db!Bet, Db!BetThreads
<1> DEFINE u == Db!PaidBy(t, p, chips)
<1>2. p \in Db!Seated(t)
  BY DEF Db!Bet, IsTable
<1>3. chips \in 0..t.wallet[p]
  BY <1>1
<1>4. IsTable(u) /\ u.wallet[p] \in Nat /\ IsCall(t, u, <<Db!Upsert(p, u.wallet[p])>>)
  BY <1>2, <1>3, PaidCall
<1>5. p \in Db!Seated(u)
  BY <1>2 DEF Db!PaidBy, Db!Seated
<1>6. Recalled(t, u, <<Db!Upsert(p, u.wallet[p])>>)
  <2> HIDE DEF u
  <2>1. /\ Db!Upsert(p, u.wallet[p]).id = p
        /\ Db!Upsert(p, u.wallet[p]).wallet = u.wallet[p]
    BY DEF Db!Upsert
  <2> QED
    BY <1>5, <2>1, RecalledOne
<1> QED
  BY <1>1, <1>4, <1>6 DEF IsCalled

\* So is a start, with that of the blind if there is one to pay.
LEMMA StartCalled ==
  ASSUME NEW k, IsTable(tables[k]), Db!Start(k)
  PROVE  \E u, new : IsCalled(k, u, new)
<1> DEFINE t == tables[k]
           d == [t EXCEPT !.ring = Db!Seated(t), !.live = @ \cup Db!Seated(t), !.pot = 0]
<1>1. t = [wallet |-> t.wallet, ring |-> t.ring, live |-> t.live, pot |-> t.pot]
  BY DEF IsTable
<1>2. d = [wallet |-> t.wallet, ring |-> Db!Seated(t), live |-> t.live \cup Db!Seated(t), pot |-> 0]
  <2> HIDE DEF t
  <2>1. d = [t EXCEPT !.ring = Db!Seated(t), !.live = t.live \cup Db!Seated(t), !.pot = 0]
    OBVIOUS
  <2> HIDE DEF d
  <2> QED
    BY <1>1, <2>1
<1>3. \E blind \in Db!Seated(d) :
        IF d.wallet[blind] = 0 THEN Db!Becomes(k, d, <<>>)
        ELSE LET paid == Db!PaidBy(d, blind, 1)
             IN Db!Becomes(k, paid, <<Db!Upsert(blind, paid.wallet[blind])>>)
  BY DEF Db!Start, Db!BetThreads
<1> HIDE DEF d
<1>4. /\ IsTable(d) /\ Db!Seated(d) = Db!Seated(t) /\ d.wallet = t.wallet /\ d.pot <= t.pot
  BY <1>2 DEF IsTable, Db!Seated
<1>5. IsCall(t, d, <<>>)
  BY <1>4, QuietCall
<1>6. PICK blind \in Db!Seated(d) :
        IF d.wallet[blind] = 0 THEN Db!Becomes(k, d, <<>>)
        ELSE LET paid == Db!PaidBy(d, blind, 1)
             IN Db!Becomes(k, paid, <<Db!Upsert(blind, paid.wallet[blind])>>)
  BY <1>3
<1>7. CASE d.wallet[blind] = 0
  <2>1. Db!Becomes(k, d, <<>>)
    BY <1>6, <1>7
  <2>2. Recalled(t, d, <<>>)
    BY DEF Recalled
  <2> QED
    BY <1>5, <2>1, <2>2 DEF IsCalled
<1>8. CASE d.wallet[blind] # 0
  <2> DEFINE u == Db!PaidBy(d, blind, 1)
             th == Db!Upsert(blind, u.wallet[blind])
  <2>1. Db!Becomes(k, u, <<th>>)
    BY <1>6, <1>8
  <2>2. 1 \in 0..d.wallet[blind]
    BY <1>4, <1>6, <1>8 DEF IsTable
  <2>3. IsTable(u) /\ u.wallet[blind] \in Nat /\ IsCall(d, u, <<th>>)
    BY <1>4, <1>6, <2>2, PaidCall
  <2>4. blind \in Db!Seated(u)
    BY <1>6 DEF Db!PaidBy, Db!Seated
  <2> HIDE DEF u
  <2>5. th.id = blind /\ th.wallet = u.wallet[blind]
    BY DEF Db!Upsert
  <2> HIDE DEF th
  <2>6. IsCall(t, u, <<>> \o <<th>>)
    BY <1>5, <2>3, CallThen
  <2>7. <<>> \o <<th>> = <<th>>
    OBVIOUS
  <2>8. Recalled(t, u, <<th>>)
    BY <2>4, <2>5, RecalledOne
  <2> QED
    BY <2>1, <2>6, <2>7, <2>8 DEF IsCalled
<1> QED
  BY <1>7, <1>8

\* After a fold the player's own thread, and for one who leaves the delete.
Parting(p, after, gone) ==
  \/ after = <<>> /\ gone = {}
  \/ after = <<Db!Delete(p)>> /\ gone = {p}

LEMMA WithoutNobody ==
  ASSUME NEW t, IsTable(t)
  PROVE  Db!Without(t, {}) = t
<1>1. /\ t = [wallet |-> t.wallet, ring |-> t.ring, live |-> t.live, pot |-> t.pot]
      /\ t.wallet = [p \in DOMAIN t.wallet |-> t.wallet[p]]
  BY DEF IsTable
<1>2. Db!Cut(t.wallet, {}) = t.wallet
  BY <1>1 DEF Db!Cut, Db!Restrict
<1>3. [t EXCEPT !.wallet = t.wallet] = t
  BY <1>1
<1> QED
  BY <1>2, <1>3 DEF Db!Without

\* A player off the ring writes their wallet, and may go.
LEMMA PartingCall ==
  ASSUME NEW t, IsTable(t), NEW p \in Db!Seated(t), p \notin t.ring,
         NEW after, NEW gone, Parting(p, after, gone)
  PROVE  LET u   == Db!Without(t, gone)
             new == <<Db!Upsert(p, t.wallet[p])>> \o after
         IN /\ IsTable(u) /\ IsCall(t, u, new) /\ new \in Seq(ThreadKinds)
            /\ \A i \in 1..Len(new) : new[i].op = "upsert" =>
                 new[i].id = p /\ new[i].wallet = t.wallet[p]
<1> DEFINE th == Db!Upsert(p, t.wallet[p])
           de == Db!Delete(p)
<1>1. IsCall(t, t, <<th>>)
  BY SameCall
<1>2. th.id = p /\ th.wallet = t.wallet[p] /\ de.op = "delete"
  BY DEF Db!Upsert, Db!Delete
<1>3. th \in ThreadKinds /\ de \in ThreadKinds
  BY OneUpsertKind DEF IsTable
<1>4. /\ IsTable(Db!Without(t, {p})) /\ IsCall(t, Db!Without(t, {p}), <<de>>)
  BY GoneCall
<1> HIDE DEF th, de
<1>5. CASE after = <<>> /\ gone = {}
  <2>1. <<th>> \o <<>> = <<th>> /\ <<th>> \in Seq(ThreadKinds) /\ Len(<<th>>) = 1
    BY <1>3
  <2>2. \A i \in 1..1 : <<th>>[i] = th
    OBVIOUS
  <2> QED
    BY <1>1, <1>2, <1>5, <2>1, <2>2, WithoutNobody DEF th
<1>6. CASE after = <<de>> /\ gone = {p}
  <2>1. IsCall(t, Db!Without(t, {p}), <<th>> \o <<de>>)
    BY <1>1, <1>4, CallThen
  <2>2. /\ <<th>> \in Seq(ThreadKinds) /\ Len(<<th>>) = 1 /\ <<th>>[1] = th
        /\ <<de>> \in Seq(ThreadKinds) /\ Len(<<de>>) = 1 /\ <<de>>[1] = de
    BY <1>3
  <2> DEFINE new == <<th>> \o <<de>>
  <2>3. /\ new \in Seq(ThreadKinds) /\ Len(new) = 2
        /\ \A i \in 1..2 : new[i] = IF i <= 1 THEN <<th>>[i] ELSE <<de>>[i - 1]
    BY <2>2, ConcatProperties
  <2> HIDE DEF new
  <2>4. \A i \in 1..2 : i = 1 \/ i = 2
    OBVIOUS
  <2>5. new[1] = th /\ new[2] = de
    BY <2>2, <2>3
  <2>6. \A i \in 1..2 : new[i].op = "upsert" => new[i].id = p /\ new[i].wallet = t.wallet[p]
    BY <1>2, <2>4, <2>5
  <2> QED
    BY <1>4, <1>6, <2>1, <2>3, <2>6 DEF th, new
<1> QED
  BY <1>5, <1>6 DEF Parting, de

\* A hand that ends, with the threads of a fold or none after its own.
LEMMA EndedThen ==
  ASSUME NEW k, NEW s, NEW t, IsTable(s), IsTable(t), s.wallet = t.wallet, IsCall(s, t, <<>>),
         NEW after \in Seq(ThreadKinds), NEW gone, Db!EndGame(k, t, after, gone),
         \A u : /\ IsTable(u) /\ Db!Seated(u) = Db!Seated(t) /\ u.ring = {}
                /\ \A p \in Db!Seated(t) : p \notin t.live => u.wallet[p] = t.wallet[p]
                => /\ IsCall(u, Db!Without(u, gone), after)
                   /\ Recalled(s, Db!Without(u, gone), after)
                   /\ \A p \in gone : p \in Db!Seated(s) => u.wallet[p] = s.wallet[p]
  PROVE  \E u, new : Db!Becomes(k, u, new) /\ IsCall(s, u, new) /\ Recalled(s, u, new)
<1>1. PICK paid \in Db!Payouts(t), order \in Db!SetToSeqs(Db!Seated(t)) :
        Db!Becomes(k, Db!Without(Db!AfterHand(t, paid), gone),
                   Db!EndThreads(t, paid, order) \o after)
  BY DEF Db!EndGame
<1> DEFINE u   == Db!AfterHand(t, paid)
           new == Db!EndThreads(t, paid, order)
           v   == Db!Without(u, gone)
<1>2. /\ IsTable(u) /\ Db!Seated(u) = Db!Seated(t) /\ u.ring = {} /\ IsCall(t, u, new)
      /\ \A i \in 1..Len(new) : new[i].wallet = u.wallet[new[i].id]
      /\ \A p \in Db!Seated(t) : p \notin t.live => u.wallet[p] = t.wallet[p]
  BY EndedCall
<1>3. /\ Db!Seated(v) = Db!Seated(u) \ gone /\ \A p \in Db!Seated(v) : v.wallet[p] = u.wallet[p]
  <2> HIDE DEF u
  <2>1. u = [wallet |-> u.wallet, ring |-> u.ring, live |-> u.live, pot |-> u.pot]
    BY <1>2 DEF IsTable
  <2>2. v.wallet = [p \in DOMAIN u.wallet \ gone |-> u.wallet[p]]
    <3>1. Db!Cut(u.wallet, gone) = [p \in DOMAIN u.wallet \ gone |-> u.wallet[p]]
      <4>1. DOMAIN u.wallet \ (DOMAIN u.wallet \ gone) = DOMAIN u.wallet \cap gone
        OBVIOUS
      <4> QED
        BY DEF Db!Cut, Db!Restrict
    <3>2. [u EXCEPT !.wallet = Db!Cut(u.wallet, gone)].wallet = Db!Cut(u.wallet, gone)
      BY <2>1
    <3> QED
      BY <3>1, <3>2 DEF Db!Without
  <2> QED
    BY <2>2 DEF Db!Seated
<1> HIDE DEF u, v, new
<1>4. /\ IsCall(u, v, after) /\ Recalled(s, v, after)
      /\ \A p \in gone : p \in Db!Seated(s) => u.wallet[p] = s.wallet[p]
  BY <1>2 DEF v
<1>5. IsCall(s, v, new \o after)
  <2>1. IsCall(s, u, <<>> \o new)
    BY <1>2, CallThen
  <2>2. <<>> \o new = new
    BY <1>2, ConcatEmptySeq DEF IsCall
  <2> QED
    BY <1>4, <2>1, <2>2, CallThen
<1>6. new \in Seq(ThreadKinds) /\ \A i \in 1..Len(new) : new[i].id \in Db!Seated(u)
  BY <1>2 DEF IsCall
<1>7. Recalled(s, v, new)
  <2>1. Db!Seated(s) = Db!Seated(u)
    BY <1>2 DEF Db!Seated
  <2> QED
    BY <1>2, <1>3, <1>4, <1>6, <2>1 DEF Recalled
<1>8. Recalled(s, v, new \o after)
  BY <1>4, <1>6, <1>7, RecalledThen
<1>9. Db!Becomes(k, v, new \o after)
  BY <1>1 DEF u, v, new
<1> QED
  BY <1>5, <1>8, <1>9

\* The last round ends the hand.
LEMMA LastRoundCalled ==
  ASSUME NEW k, IsTable(tables[k]), Db!LastRound(k)
  PROVE  \E u, new : IsCalled(k, u, new)
<1> DEFINE t == tables[k]
<1>1. Db!EndGame(k, t, <<>>, {})
  BY DEF Db!LastRound
<1>2. IsCall(t, t, <<>>) /\ <<>> \in Seq(ThreadKinds)
  BY QuietCall DEF IsTable
<1> HIDE DEF t
<1>3. ASSUME NEW u, IsTable(u)
      PROVE  /\ IsCall(u, Db!Without(u, {}), <<>>)
             /\ Recalled(t, Db!Without(u, {}), <<>>)
             /\ \A p \in {} : p \in Db!Seated(t) => u.wallet[p] = t.wallet[p]
  <2>1. IsCall(u, u, <<>>)
    BY <1>3, QuietCall DEF IsTable
  <2>2. Recalled(t, u, <<>>)
    BY DEF Recalled
  <2> QED
    BY <1>3, <2>1, <2>2, WithoutNobody
<1>4. IsTable(t)
  BY DEF t
<1>5. \E u, new : Db!Becomes(k, u, new) /\ IsCall(t, u, new) /\ Recalled(t, u, new)
  BY <1>1, <1>2, <1>3, <1>4, EndedThen
<1> QED
  BY <1>5 DEF IsCalled, t

\* A fold or a leave is a call, whether or not it ends the hand.
LEMMA FoldCalled ==
  ASSUME NEW k, IsTable(tables[k]), NEW p \in Db!Seated(tables[k]),
         NEW after, NEW gone, Parting(p, after, gone), Db!FoldThen(k, p, after, gone)
  PROVE  \E u, new : IsCalled(k, u, new)
<1> DEFINE t == tables[k]
           s == [t EXCEPT !.ring = @ \ {p}, !.live = @ \ {p}]
           mine == <<Db!Upsert(p, t.wallet[p])>> \o after
<1>1. IF p \in t.ring /\ Db!Cardinality(s.ring) = 1
      THEN Db!EndGame(k, s, mine, gone)
      ELSE Db!Becomes(k, Db!Without(s, gone), mine)
  BY DEF Db!FoldThen
<1> HIDE DEF t
<1>2. IsTable(t) /\ p \in Db!Seated(t)
  BY DEF t
<1>3. s = [wallet |-> t.wallet, ring |-> t.ring \ {p}, live |-> t.live \ {p}, pot |-> t.pot]
  <2>1. t = [wallet |-> t.wallet, ring |-> t.ring, live |-> t.live, pot |-> t.pot]
    BY <1>2 DEF IsTable
  <2>2. s = [t EXCEPT !.ring = t.ring \ {p}, !.live = t.live \ {p}]
    OBVIOUS
  <2> HIDE DEF s
  <2> QED
    BY <2>1, <2>2
<1> HIDE DEF s
<1>4. /\ s.wallet = t.wallet /\ s.ring = t.ring \ {p} /\ s.live = t.live \ {p} /\ s.pot = t.pot
  BY <1>3
<1>5. IsTable(s) /\ Db!Seated(s) = Db!Seated(t) /\ p \in Db!Seated(s)
  BY <1>2, <1>3, <1>4 DEF IsTable, Db!Seated
<1>6. IsCall(t, s, <<>>)
  BY <1>2, <1>4, <1>5, QuietCall DEF IsTable
<1>7. ASSUME NEW u, IsTable(u), Db!Seated(u) = Db!Seated(s), p \notin u.ring,
             u.wallet[p] = t.wallet[p]
      PROVE  /\ IsCall(u, Db!Without(u, gone), mine) /\ Recalled(t, Db!Without(u, gone), mine)
             /\ mine \in Seq(ThreadKinds)
  <2>1. p \in Db!Seated(u) /\ <<Db!Upsert(p, u.wallet[p])>> \o after = mine
    BY <1>5, <1>7
  <2> DEFINE own == <<Db!Upsert(p, u.wallet[p])>> \o after
  <2>2. /\ IsCall(u, Db!Without(u, gone), own) /\ own \in Seq(ThreadKinds)
        /\ \A i \in 1..Len(own) : own[i].op = "upsert" =>
             own[i].id = p /\ own[i].wallet = u.wallet[p]
    BY <1>7, <2>1, PartingCall
  <2> HIDE DEF own
  <2>3. own = mine
    BY <2>1 DEF own
  <2> HIDE DEF mine
  <2>4. Recalled(t, Db!Without(u, gone), mine)
    BY <1>2, <1>7, <2>2, <2>3 DEF Recalled
  <2> QED
    BY <2>2, <2>3, <2>4
<1>8. mine \in Seq(ThreadKinds)
  BY <1>4, <1>5, <1>7
<1> HIDE DEF mine
<1>9. CASE p \in t.ring /\ Db!Cardinality(s.ring) = 1
  <2>1. Db!EndGame(k, s, mine, gone)
    BY <1>1, <1>9
  <2>2. ASSUME NEW u, IsTable(u), Db!Seated(u) = Db!Seated(s), u.ring = {},
               \A q \in Db!Seated(s) : q \notin s.live => u.wallet[q] = s.wallet[q]
        PROVE  /\ IsCall(u, Db!Without(u, gone), mine)
               /\ Recalled(t, Db!Without(u, gone), mine)
               /\ \A q \in gone : q \in Db!Seated(t) => u.wallet[q] = t.wallet[q]
    <3>1. u.wallet[p] = t.wallet[p]
      BY <1>4, <1>5, <2>2
    <3>2. \A q \in gone : q = p
      BY DEF Parting
    <3>3. p \notin u.ring
      BY <2>2
    <3> QED
      BY <1>7, <2>2, <3>1, <3>2, <3>3
  <2>3. \E u, new : Db!Becomes(k, u, new) /\ IsCall(t, u, new) /\ Recalled(t, u, new)
    BY <1>2, <1>4, <1>5, <1>6, <1>8, <2>1, <2>2, EndedThen
  <2> QED
    BY <2>3 DEF IsCalled, t
<1>10. CASE ~(p \in t.ring /\ Db!Cardinality(s.ring) = 1)
  <2>1. Db!Becomes(k, Db!Without(s, gone), mine)
    BY <1>1, <1>10
  <2>2. p \notin s.ring
    BY <1>4
  <2>3. IsCall(s, Db!Without(s, gone), mine) /\ Recalled(t, Db!Without(s, gone), mine)
    BY <1>4, <1>5, <1>7, <2>2
  <2>4. IsCall(t, Db!Without(s, gone), <<>> \o mine) /\ <<>> \o mine = mine
    BY <1>2, <1>6, <1>8, <2>3, CallThen, ConcatEmptySeq
  <2> QED
    BY <2>1, <2>3, <2>4 DEF IsCalled, t
<1> QED
  BY <1>9, <1>10

\* Every method of table k takes a table to a table, in a way that its threads tell.
LEMMA TableCalled ==
  ASSUME NEW k, IsTable(tables[k]),
         NEW p, Db!Start(k) \/ Db!LastRound(k) \/ Db!Bet(k, p) \/ Db!FoldHand(k, p) \/ Db!Leave(k, p)
  PROVE  \E u, new : IsCalled(k, u, new)
<1>1. CASE Db!FoldHand(k, p)
  <2>1. Parting(p, <<>>, {}) /\ p \in Db!Seated(tables[k]) /\ Db!FoldThen(k, p, <<>>, {})
    BY <1>1 DEF Db!FoldHand, Parting, IsTable
  <2> QED
    BY <2>1, FoldCalled
<1>2. CASE Db!Leave(k, p)
  <2>1. /\ Parting(p, <<Db!Delete(p)>>, {p}) /\ p \in Db!Seated(tables[k])
        /\ Db!FoldThen(k, p, <<Db!Delete(p)>>, {p})
    BY <1>2 DEF Db!Leave, Parting
  <2> QED
    BY <2>1, FoldCalled
<1> QED
  BY <1>1, <1>2, BetCalled, StartCalled, LastRoundCalled

-----------------------------------------------------------------------------
(* Whoever joins brings a wallet that is remembered.                        *)

\* The joins in progress at a table, and all the chips there with theirs.
IsArrivals(a) ==
  /\ a = [p \in DOMAIN a |-> a[p]] /\ DOMAIN a \subseteq Ids
  /\ \A p \in DOMAIN a :
       a[p] = [step |-> a[p].step, wallet |-> a[p].wallet] /\ a[p].wallet \in Nat

ChipsOf(t, a) == Holds(t) + SumFunctionOnSet(Db!Coming(a), Ids)

\* They are the chips that SavedWallets counts.
LEMMA ChipsThere ==
  ASSUME NEW k, IsTable(tables[k]), IsArrivals(joining[k])
  PROVE  /\ Db!Chips(k) = ChipsOf(tables[k], joining[k])
         /\ Db!Coming(joining[k]) \in [Ids -> Nat]
         /\ SumFunctionOnSet(Db!Coming(joining[k]), Ids) \in Nat
<1>1. Db!Coming(joining[k]) \in [Ids -> Nat]
  BY DEF IsArrivals, Db!Coming
<1>2. /\ SumFunctionOnSet(Db!Coming(joining[k]), Ids) \in Nat
      /\ SumFunctionOnSet(Db!Wallets(tables[k]), Ids) \in Nat /\ tables[k].pot \in Nat
  BY <1>1, HoldsType, SumType, IdsAssumption DEF IsTable
<1> QED
  BY <1>1, <1>2, SameSum DEF Db!Chips, ChipsOf, Holds

\* A wallet at a table or on its way there is below the word.
LEMMA WalletBelow ==
  ASSUME NEW t, NEW a, IsTable(t), IsArrivals(a), ChipsOf(t, a) < WordSize
  PROVE  /\ \A p \in Db!Seated(t) : t.wallet[p] \in 0..(WordSize - 1)
         /\ \A p \in DOMAIN a : a[p].wallet \in 0..(WordSize - 1)
<1>1. Db!Coming(a) \in [Ids -> Nat]
  BY DEF IsArrivals, Db!Coming
<1>2. SumFunctionOnSet(Db!Coming(a), Ids) \in Nat /\ Holds(t) \in Nat
  BY <1>1, HoldsType, SumType, IdsAssumption
<1>3. ASSUME NEW p \in Db!Seated(t)
      PROVE  t.wallet[p] \in 0..(WordSize - 1)
  <2>1. p \in Ids /\ t.wallet[p] \in Nat /\ Db!Wallets(t)[p] = t.wallet[p]
    BY DEF IsTable, Db!Wallets
  <2>2. Db!Wallets(t)[p] <= SumFunctionOnSet(Db!Wallets(t), Ids)
    BY <2>1, HoldsType, SumTerm, IdsAssumption
  <2>3. SumFunctionOnSet(Db!Wallets(t), Ids) <= Holds(t)
    BY WalletsWithin
  <2>4. SumFunctionOnSet(Db!Wallets(t), Ids) \in Nat
    BY HoldsType
  <2> QED
    BY <1>2, <2>1, <2>2, <2>3, <2>4, NumberAssumption DEF ChipsOf
<1>4. ASSUME NEW p \in DOMAIN a
      PROVE  a[p].wallet \in 0..(WordSize - 1)
  <2>1. p \in Ids /\ a[p].wallet \in Nat /\ Db!Coming(a)[p] = a[p].wallet
    BY DEF IsArrivals, Db!Coming
  <2>2. Db!Coming(a)[p] <= SumFunctionOnSet(Db!Coming(a), Ids)
    BY <1>1, <2>1, SumTerm, IdsAssumption
  <2> QED
    BY <1>2, <2>1, <2>2, NumberAssumption DEF ChipsOf
<1> QED
  BY <1>3, <1>4

\* The rows, the threads, the tables and those who join hold only wallets that
\* are remembered.
WalletsKept ==
  /\ tables = [k \in Tables |-> tables[k]] /\ joining = [k \in Tables |-> joining[k]]
  /\ \A k \in Tables : /\ IsTable(tables[k]) /\ IsArrivals(joining[k])
                       /\ ChipsOf(tables[k], joining[k]) < WordSize
  /\ threads \in Seq(ThreadKinds) /\ brought \in Nat /\ DOMAIN rows \subseteq Ids

\* Whatever wallet is at a table, in a join, a thread or a row was once its player's.
WalletsHeld ==
  /\ held \in [Ids -> SUBSET (0..(WordSize - 1))]
  /\ \A k \in Tables : \A p \in Db!Seated(tables[k]) : tables[k].wallet[p] \in held[p]
  /\ \A k \in Tables : \A p \in DOMAIN joining[k] : joining[k][p].wallet \in held[p]
  /\ \A i \in 1..Len(threads) :
       threads[i].op = "upsert" => threads[i].wallet \in held[threads[i].id]
  /\ \A p \in DOMAIN rows : \E w \in held[p] : rows[p] = Db!Stored(w)

\* The thread that runs is taken from the others.
LEMMA Taken ==
  ASSUME NEW s \in Seq(ThreadKinds), NEW i \in 1..Len(s)
  PROVE  LET r == Db!RemoveAt(s, i)
         IN /\ r \in Seq(ThreadKinds) /\ Len(r) = Len(s) - 1
            /\ \A j \in 1..Len(r) : r[j] = IF j < i THEN s[j] ELSE s[j + 1]
<1> DEFINE a == SubSeq(s, 1, i - 1)
           b == SubSeq(s, i + 1, Len(s))
           n == Len(s)
<1>1. n \in Nat /\ i \in 1..n /\ \A j \in 1..n : s[j] \in ThreadKinds
  BY LenProperties, ElementOfSeq
<1>2. /\ a \in Seq(ThreadKinds) /\ Len(a) = i - 1 /\ \A j \in 1..(i - 1) : a[j] = s[j]
  <2>1. \A j \in 1..(i - 1) : s[j] \in ThreadKinds
    BY <1>1
  <2>2. /\ a \in Seq(ThreadKinds) /\ Len(a) = IF 1 <= i - 1 THEN (i - 1) - 1 + 1 ELSE 0
        /\ \A j \in 1 .. (i - 1) - 1 + 1 : a[j] = s[1 + j - 1]
    BY <1>1, <2>1, SubSeqProperties
  <2> QED
    BY <1>1, <2>2
<1>3. /\ b \in Seq(ThreadKinds) /\ Len(b) = n - i /\ \A j \in 1..(n - i) : b[j] = s[i + j]
  <2>1. \A j \in (i + 1)..n : s[j] \in ThreadKinds
    BY <1>1
  <2>2. /\ b \in Seq(ThreadKinds) /\ Len(b) = IF i + 1 <= n THEN n - (i + 1) + 1 ELSE 0
        /\ \A j \in 1 .. n - (i + 1) + 1 : b[j] = s[i + 1 + j - 1]
    BY <1>1, <2>1, SubSeqProperties
  <2> QED
    BY <1>1, <2>2
<1>4. Db!RemoveAt(s, i) = a \o b
  BY DEF Db!RemoveAt
<1> HIDE DEF a, b, n
<1>5. /\ a \o b \in Seq(ThreadKinds) /\ Len(a \o b) = n - 1
      /\ \A j \in 1..(n - 1) : (a \o b)[j] = IF j <= i - 1 THEN a[j] ELSE b[j - (i - 1)]
  <2>1. Len(a) + Len(b) = n - 1
    BY <1>1, <1>2, <1>3
  <2> QED
    BY <1>2, <1>3, <2>1, ConcatProperties
<1>6. ASSUME NEW j \in 1..(n - 1)
      PROVE  (a \o b)[j] = IF j < i THEN s[j] ELSE s[j + 1]
  <2>1. CASE j < i
    BY <1>1, <1>2, <1>5, <2>1
  <2>2. CASE ~(j < i)
    <3>1. j - (i - 1) \in 1..(n - i) /\ i + (j - (i - 1)) = j + 1
      BY <1>1, <2>2
    <3> QED
      BY <1>1, <1>3, <1>5, <2>2, <3>1
  <2> QED
    BY <2>1, <2>2
<1> QED
  BY <1>4, <1>5, <1>6 DEF n

LEMMA TakenFrom ==
  ASSUME NEW s \in Seq(ThreadKinds), NEW i \in 1..Len(s), NEW j \in 1..Len(Db!RemoveAt(s, i))
  PROVE  \E l \in 1..Len(s) : Db!RemoveAt(s, i)[j] = s[l]
<1>1. Len(s) \in Nat
  BY LenProperties
<1>2. j \in 1..(Len(s) - 1) /\ Db!RemoveAt(s, i)[j] = IF j < i THEN s[j] ELSE s[j + 1]
  BY Taken
<1>3. j \in 1..Len(s) /\ j + 1 \in 1..Len(s)
  BY <1>1, <1>2
<1> QED
  BY <1>2, <1>3

\* What a call changes.
LEMMA BecomesFields ==
  ASSUME WalletsKept, NEW k \in Tables, NEW u, NEW new, IsCalled(k, u, new)
  PROVE  /\ tables' = [j \in Tables |-> tables'[j]] /\ tables'[k] = u
         /\ \A j \in Tables : j # k => tables'[j] = tables[j]
         /\ IsTable(tables[k]) /\ IsTable(u) /\ Db!Seated(u) \subseteq Db!Seated(tables[k])
         /\ Holds(u) <= Holds(tables[k]) /\ Holds(u) \in Nat /\ Holds(tables[k]) \in Nat
         /\ joining' = joining /\ rows' = rows /\ schema' = schema /\ brought' = brought
         /\ new \in Seq(ThreadKinds) /\ threads' = threads \o new /\ threads' \in Seq(ThreadKinds)
         /\ Len(threads) \in Nat /\ Len(new) \in Nat /\ Len(threads') = Len(threads) + Len(new)
         /\ \A i \in 1..Len(threads) : threads'[i] = threads[i]
         /\ \A i \in 1..Len(threads') :
              /\ i <= Len(threads) => i \in 1..Len(threads) /\ threads'[i] = threads[i]
              /\ ~(i <= Len(threads)) =>
                   i - Len(threads) \in 1..Len(new) /\ threads'[i] = new[i - Len(threads)]
         /\ held' = [p \in Ids |-> IF p \in Db!Seated(u) THEN held[p] \cup {u.wallet[p]}
                                   ELSE held[p]]
<1>1. /\ tables' = [tables EXCEPT ![k] = u] /\ threads' = threads \o new
      /\ held' = [p \in Ids |-> IF p \in Db!Seated(u) THEN held[p] \cup {u.wallet[p]}
                                ELSE held[p]]
      /\ joining' = joining /\ rows' = rows /\ schema' = schema /\ brought' = brought
  BY DEF IsCalled, Db!Becomes
<1>2. /\ tables = [j \in Tables |-> tables[j]] /\ IsTable(tables[k])
      /\ threads \in Seq(ThreadKinds)
  BY DEF WalletsKept
<1>3. /\ tables' = [j \in Tables |-> tables'[j]] /\ tables'[k] = u
      /\ \A j \in Tables : j # k => tables'[j] = tables[j]
  BY <1>1, <1>2
<1>4. /\ IsTable(u) /\ Db!Seated(u) \subseteq Db!Seated(tables[k])
      /\ Holds(u) <= Holds(tables[k]) /\ new \in Seq(ThreadKinds)
  BY DEF IsCalled, IsCall
<1>5. Holds(u) \in Nat /\ Holds(tables[k]) \in Nat
  BY <1>2, <1>4, HoldsType
<1>6. /\ threads' \in Seq(ThreadKinds) /\ Len(threads') = Len(threads) + Len(new)
      /\ \A i \in 1..(Len(threads) + Len(new)) :
           threads'[i] = IF i <= Len(threads) THEN threads[i] ELSE new[i - Len(threads)]
      /\ Len(threads) \in Nat /\ Len(new) \in Nat
  BY <1>1, <1>2, <1>4, ConcatProperties, LenProperties
<1>7. \A i \in 1..Len(threads') :
        /\ i <= Len(threads) => i \in 1..Len(threads) /\ threads'[i] = threads[i]
        /\ ~(i <= Len(threads)) =>
             i - Len(threads) \in 1..Len(new) /\ threads'[i] = new[i - Len(threads)]
  BY <1>6
<1>8. \A i \in 1..Len(threads) : threads'[i] = threads[i]
  BY <1>6
<1> QED
  BY <1>1, <1>2, <1>3, <1>4, <1>5, <1>6, <1>7, <1>8

\* Each action keeps the types and what is remembered: the calls of a table,
LEMMA CalledKept ==
  ASSUME WalletsKept, WalletsHeld, NEW k \in Tables, NEW u, NEW new, IsCalled(k, u, new)
  PROVE  WalletsKept' /\ WalletsHeld'
<1> DEFINE n == Len(threads)
<1>1. /\ tables' = [j \in Tables |-> tables'[j]] /\ tables'[k] = u
      /\ \A j \in Tables : j # k => tables'[j] = tables[j]
      /\ IsTable(tables[k]) /\ IsTable(u) /\ Db!Seated(u) \subseteq Db!Seated(tables[k])
      /\ Holds(u) <= Holds(tables[k]) /\ Holds(u) \in Nat /\ Holds(tables[k]) \in Nat
      /\ joining' = joining /\ rows' = rows /\ brought' = brought
      /\ new \in Seq(ThreadKinds) /\ threads' \in Seq(ThreadKinds)
      /\ n \in Nat /\ Len(new) \in Nat
      /\ held' = [p \in Ids |-> IF p \in Db!Seated(u) THEN held[p] \cup {u.wallet[p]}
                                ELSE held[p]]
  BY BecomesFields
<1>2. \A i \in 1..Len(threads') : \/ \E j \in 1..n : threads'[i] = threads[j]
                                  \/ \E j \in 1..Len(new) : threads'[i] = new[j]
  BY BecomesFields
<1>3. ASSUME NEW j \in Tables
      PROVE  /\ IsTable(tables'[j]) /\ IsArrivals(joining'[j])
             /\ ChipsOf(tables'[j], joining'[j]) < WordSize
  <2>1. IsTable(tables[j]) /\ IsArrivals(joining[j]) /\ ChipsOf(tables[j], joining[j]) < WordSize
    BY DEF WalletsKept
  <2>2. CASE j = k
    <3>1. SumFunctionOnSet(Db!Coming(joining[k]), Ids) \in Nat
      BY <2>1, <2>2, ChipsThere
    <3>2. ChipsOf(u, joining[k]) < WordSize
      BY <1>1, <2>1, <2>2, <3>1, NumberAssumption DEF ChipsOf
    <3> QED
      BY <1>1, <2>1, <2>2, <3>2
  <2>3. CASE j # k
    BY <1>1, <2>1, <2>3
  <2> QED
    BY <2>2, <2>3
<1>4. WalletsKept'
  <2>1. /\ joining = [j \in Tables |-> joining[j]] /\ brought \in Nat /\ DOMAIN rows \subseteq Ids
    BY DEF WalletsKept
  <2> QED
    BY <1>1, <1>3, <2>1 DEF WalletsKept
<1>5. /\ held \in [Ids -> SUBSET (0..(WordSize - 1))]
      /\ \A j \in Tables : \A p \in Db!Seated(tables[j]) : p \in Ids /\ tables[j].wallet[p] \in held[p]
      /\ \A j \in Tables : \A p \in DOMAIN joining[j] : p \in Ids /\ joining[j][p].wallet \in held[p]
      /\ \A i \in 1..n : threads[i].op = "upsert" => threads[i].wallet \in held[threads[i].id]
      /\ \A p \in DOMAIN rows : p \in Ids /\ \E w \in held[p] : rows[p] = Db!Stored(w)
  BY DEF WalletsHeld, WalletsKept, IsTable, IsArrivals
<1>6. \A p \in Db!Seated(u) : u.wallet[p] \in 0..(WordSize - 1)
  BY <1>1, <1>3, WalletBelow
<1>7. held' \in [Ids -> SUBSET (0..(WordSize - 1))] /\ \A p \in Ids : held[p] \subseteq held'[p]
  BY <1>1, <1>5, <1>6
<1>8. \A p \in Db!Seated(u) : u.wallet[p] \in held'[p] /\ p \in Ids
  BY <1>1 DEF IsTable
<1>9. \A j \in Tables : \A p \in Db!Seated(tables'[j]) : tables'[j].wallet[p] \in held'[p]
  BY <1>1, <1>5, <1>7, <1>8
<1>10. \A i \in 1..n : threads[i].id \in Ids
  BY ElementOfSeq DEF WalletsKept, ThreadKinds
<1>11. \A i \in 1..Len(new) : new[i].op = "upsert" => new[i].wallet \in held'[new[i].id]
  <2>1. Recalled(tables[k], u, new)
    BY DEF IsCalled
  <2> QED
    BY <1>1, <1>5, <1>7, <1>8, <2>1 DEF Recalled
<1>12. ASSUME NEW i \in 1..Len(threads'), threads'[i].op = "upsert"
       PROVE  threads'[i].wallet \in held'[threads'[i].id]
  <2>1. CASE \E j \in 1..n : threads'[i] = threads[j]
    <3>1. PICK j \in 1..n : threads'[i] = threads[j]
      BY <2>1
    <3>2. threads[j].wallet \in held[threads[j].id] /\ threads[j].id \in Ids
      BY <1>5, <1>10, <1>12, <3>1
    <3> QED
      BY <1>7, <3>1, <3>2
  <2>2. CASE \E j \in 1..Len(new) : threads'[i] = new[j]
    BY <1>11, <1>12, <2>2
  <2> QED
    BY <1>2, <2>1, <2>2
<1>13. \A j \in Tables : \A p \in DOMAIN joining[j] : joining[j][p].wallet \in held'[p]
  BY <1>5, <1>7
<1>14. \A p \in DOMAIN rows : \E w \in held'[p] : rows[p] = Db!Stored(w)
  BY <1>5, <1>7
<1>15. WalletsHeld'
  BY <1>1, <1>7, <1>9, <1>12, <1>13, <1>14 DEF WalletsHeld
<1> QED
  BY <1>4, <1>15

\* fetch_player, as a change of who is joining.
LEMMA FetchFields ==
  ASSUME WalletsKept, WalletsHeld, NEW k \in Tables, NEW p \in Ids, Db!Fetch(k, p)
  PROVE  \E w \in Nat :
           /\ p \notin DOMAIN joining[k] /\ ChipsOf(tables[k], joining[k]) + w < WordSize
           /\ DOMAIN joining'[k] = DOMAIN joining[k] \cup {p}
           /\ joining'[k][p] = [step |-> "upsert", wallet |-> w]
           /\ \A q \in DOMAIN joining[k] : joining'[k][q] = joining[k][q]
           /\ IsArrivals(joining'[k]) /\ joining' = [j \in Tables |-> joining'[j]]
           /\ \A j \in Tables : j # k => joining'[j] = joining[j]
           /\ \/ /\ p \in DOMAIN rows /\ w = Db!Fetched(rows[p])
                 /\ brought' = brought /\ held' = held
              \/ /\ p \notin DOMAIN rows \/ schema # "ready" \/ MayFail
                 /\ brought + w < WordSize /\ brought' = brought + w
                 /\ held' = [held EXCEPT ![p] = @ \cup {w}]
           /\ UNCHANGED <<tables, threads, schema, rows, stops>>
<1>1. /\ p \notin DOMAIN joining[k] /\ UNCHANGED <<tables, threads, schema, rows, stops>>
      /\ \/ /\ p \in DOMAIN rows /\ Db!Brings(k, p, Db!Fetched(rows[p]))
            /\ brought' = brought /\ held' = held
         \/ \E w \in JoinChips :
              /\ p \notin DOMAIN rows \/ schema # "ready" \/ MayFail
              /\ brought + w < WordSize /\ Db!Brings(k, p, w) /\ brought' = brought + w
              /\ held' = [held EXCEPT ![p] = @ \cup {w}]
  BY DEF Db!Fetch
<1>2. /\ joining = [j \in Tables |-> joining[j]] /\ IsArrivals(joining[k]) /\ IsTable(tables[k])
  BY DEF WalletsKept
<1>3. Db!Chips(k) = ChipsOf(tables[k], joining[k])
  BY <1>2, ChipsThere
<1>4. ASSUME NEW w \in Nat, Db!Brings(k, p, w)
      PROVE  /\ ChipsOf(tables[k], joining[k]) + w < WordSize
             /\ DOMAIN joining'[k] = DOMAIN joining[k] \cup {p}
             /\ joining'[k][p] = [step |-> "upsert", wallet |-> w]
             /\ \A q \in DOMAIN joining[k] : joining'[k][q] = joining[k][q]
             /\ IsArrivals(joining'[k]) /\ joining' = [j \in Tables |-> joining'[j]]
             /\ \A j \in Tables : j # k => joining'[j] = joining[j]
  <2> DEFINE r == [step |-> "upsert", wallet |-> w]
             a == Db!Put(joining[k], p, r)
  <2>1. joining' = [joining EXCEPT ![k] = a] /\ ChipsOf(tables[k], joining[k]) + w < WordSize
    BY <1>3, <1>4 DEF Db!Brings
  <2> HIDE DEF r
  <2>2. /\ DOMAIN a = DOMAIN joining[k] \cup {p} /\ a[p] = r
        /\ \A q \in DOMAIN joining[k] : q # p => a[q] = joining[k][q]
        /\ a = [q \in DOMAIN joining[k] \cup {p} |-> a[q]]
    BY DEF Db!Put
  <2> HIDE DEF a
  <2>3. /\ joining'[k] = a /\ joining' = [j \in Tables |-> joining'[j]]
        /\ \A j \in Tables : j # k => joining'[j] = joining[j]
    BY <1>2, <2>1
  <2>4. \A q \in DOMAIN a : a[q] = [step |-> a[q].step, wallet |-> a[q].wallet] /\ a[q].wallet \in Nat
    <3>1. a[p] = [step |-> a[p].step, wallet |-> a[p].wallet] /\ a[p].wallet \in Nat
      BY <2>2 DEF r
    <3> QED
      BY <1>1, <1>2, <2>2, <3>1 DEF IsArrivals
  <2>5. IsArrivals(a)
    BY <1>2, <2>2, <2>4 DEF IsArrivals
  <2> QED
    BY <1>1, <2>1, <2>2, <2>3, <2>5 DEF r
<1>5. CASE /\ p \in DOMAIN rows /\ Db!Brings(k, p, Db!Fetched(rows[p]))
           /\ brought' = brought /\ held' = held
  <2> DEFINE w == Db!Fetched(rows[p])
  <2>1. PICK x \in held[p] : rows[p] = Db!Stored(x)
    BY <1>5 DEF WalletsHeld
  <2>2. x \in 0..(WordSize - 1)
    BY <2>1 DEF WalletsHeld
  <2>3. w = x /\ w \in Nat
    BY <2>1, <2>2, StoredBack, NumberAssumption
  <2> QED
    BY <1>1, <1>4, <1>5, <2>3
<1>6. CASE \E w \in JoinChips :
             /\ p \notin DOMAIN rows \/ schema # "ready" \/ MayFail
             /\ brought + w < WordSize /\ Db!Brings(k, p, w) /\ brought' = brought + w
             /\ held' = [held EXCEPT ![p] = @ \cup {w}]
  <2>1. PICK w \in JoinChips :
             /\ p \notin DOMAIN rows \/ schema # "ready" \/ MayFail
             /\ brought + w < WordSize /\ Db!Brings(k, p, w) /\ brought' = brought + w
             /\ held' = [held EXCEPT ![p] = @ \cup {w}]
    BY <1>6
  <2>2. w \in Nat
    BY ChipsAssumption
  <2> QED
    BY <1>1, <1>4, <2>1, <2>2
<1> QED
  BY <1>1, <1>5, <1>6

\* the three steps of a join,
LEMMA FetchKept ==
  ASSUME WalletsKept, WalletsHeld, NEW k \in Tables, NEW p \in Ids, Db!Fetch(k, p)
  PROVE  WalletsKept' /\ WalletsHeld'
<1>1. PICK w \in Nat :
           /\ p \notin DOMAIN joining[k] /\ ChipsOf(tables[k], joining[k]) + w < WordSize
           /\ DOMAIN joining'[k] = DOMAIN joining[k] \cup {p}
           /\ joining'[k][p] = [step |-> "upsert", wallet |-> w]
           /\ \A q \in DOMAIN joining[k] : joining'[k][q] = joining[k][q]
           /\ IsArrivals(joining'[k]) /\ joining' = [j \in Tables |-> joining'[j]]
           /\ \A j \in Tables : j # k => joining'[j] = joining[j]
           /\ \/ /\ p \in DOMAIN rows /\ w = Db!Fetched(rows[p])
                 /\ brought' = brought /\ held' = held
              \/ /\ p \notin DOMAIN rows \/ schema # "ready" \/ MayFail
                 /\ brought + w < WordSize /\ brought' = brought + w
                 /\ held' = [held EXCEPT ![p] = @ \cup {w}]
           /\ UNCHANGED <<tables, threads, schema, rows, stops>>
  BY FetchFields
<1>2. /\ tables = [j \in Tables |-> tables[j]] /\ joining = [j \in Tables |-> joining[j]]
      /\ threads \in Seq(ThreadKinds) /\ brought \in Nat /\ DOMAIN rows \subseteq Ids
      /\ held \in [Ids -> SUBSET (0..(WordSize - 1))]
  BY DEF WalletsKept, WalletsHeld
<1>3. \A j \in Tables : /\ IsTable(tables[j]) /\ IsArrivals(joining[j])
                        /\ ChipsOf(tables[j], joining[j]) < WordSize
  BY DEF WalletsKept
<1>4. ChipsOf(tables[k], joining'[k]) = ChipsOf(tables[k], joining[k]) + w
  <2> DEFINE f == Db!Coming(joining[k])
             g == Db!Coming(joining'[k])
  <2>1. f \in [Ids -> Nat] /\ g \in [Ids -> Nat]
    BY <1>1, <1>3 DEF IsArrivals, Db!Coming
  <2>2. \A q \in Ids : q # p => g[q] = f[q]
    BY <1>1 DEF Db!Coming
  <2>3. f[p] = 0 /\ g[p] = w
    BY <1>1 DEF Db!Coming
  <2> HIDE DEF f, g
  <2>4. /\ SumFunctionOnSet(f, Ids) \in Nat /\ SumFunctionOnSet(g, Ids) \in Nat
        /\ SumFunctionOnSet(g, Ids) + f[p] = SumFunctionOnSet(f, Ids) + g[p]
    BY <2>1, <2>2, SumChange, IdsAssumption
  <2>5. Holds(tables[k]) \in Nat
    BY <1>3, HoldsType
  <2>6. SumFunctionOnSet(g, Ids) = SumFunctionOnSet(f, Ids) + w
    BY <2>3, <2>4
  <2> QED
    BY <2>4, <2>5, <2>6 DEF ChipsOf, f, g
<1>5. /\ held' \in [Ids -> SUBSET (0..(WordSize - 1))] /\ \A q \in Ids : held[q] \subseteq held'[q]
      /\ w \in held'[p] /\ brought' \in Nat
  <2>1. CASE /\ p \in DOMAIN rows /\ w = Db!Fetched(rows[p])
             /\ brought' = brought /\ held' = held
    <3>1. PICK x \in held[p] : rows[p] = Db!Stored(x)
      BY <2>1 DEF WalletsHeld
    <3>2. w = x
      BY <1>2, <2>1, <3>1, StoredBack
    <3> QED
      BY <1>2, <2>1, <3>1, <3>2
  <2>2. CASE /\ brought + w < WordSize /\ brought' = brought + w
             /\ held' = [held EXCEPT ![p] = @ \cup {w}]
    <3>1. w \in 0..(WordSize - 1)
      BY <1>2, <2>2, NumberAssumption
    <3> QED
      BY <1>2, <2>2, <3>1
  <2> QED
    BY <1>1, <2>1, <2>2
<1>6. \A j \in Tables : /\ IsTable(tables[j]) /\ IsArrivals(joining'[j])
                        /\ ChipsOf(tables[j], joining'[j]) < WordSize
  BY <1>1, <1>3, <1>4
<1>7. WalletsKept'
  BY <1>1, <1>2, <1>5, <1>6 DEF WalletsKept
<1>8. /\ \A j \in Tables : \A q \in Db!Seated(tables[j]) : q \in Ids /\ tables[j].wallet[q] \in held[q]
      /\ \A j \in Tables : \A q \in DOMAIN joining[j] : q \in Ids /\ joining[j][q].wallet \in held[q]
      /\ \A i \in 1..Len(threads) :
           /\ threads[i].op = "upsert" => threads[i].wallet \in held[threads[i].id]
           /\ threads[i].id \in Ids
      /\ \A q \in DOMAIN rows : q \in Ids /\ \E x \in held[q] : rows[q] = Db!Stored(x)
  <2>1. \A i \in 1..Len(threads) : threads[i].id \in Ids
    BY <1>2, ElementOfSeq DEF ThreadKinds
  <2> QED
    BY <1>2, <1>3, <2>1 DEF WalletsHeld, IsTable, IsArrivals
<1>9. \A j \in Tables : \A q \in DOMAIN joining'[j] : joining'[j][q].wallet \in held'[q]
  <2>1. \A q \in DOMAIN joining'[k] : joining'[k][q].wallet \in held'[q]
    <3>1. joining'[k][p].wallet \in held'[p]
      BY <1>1, <1>5
    <3>2. \A q \in DOMAIN joining[k] : joining'[k][q].wallet \in held'[q]
      BY <1>1, <1>5, <1>8
    <3> QED
      BY <1>1, <3>1, <3>2
  <2>2. \A j \in Tables : j # k => \A q \in DOMAIN joining'[j] : joining'[j][q].wallet \in held'[q]
    BY <1>1, <1>5, <1>8
  <2> QED
    BY <2>1, <2>2
<1>10. WalletsHeld'
  <2>1. /\ \A j \in Tables : \A q \in Db!Seated(tables[j]) : tables[j].wallet[q] \in held'[q]
        /\ \A q \in DOMAIN rows : \E x \in held'[q] : rows[q] = Db!Stored(x)
    BY <1>5, <1>8
  <2>2. \A i \in 1..Len(threads) :
          threads[i].op = "upsert" => threads[i].wallet \in held'[threads[i].id]
    BY <1>5, <1>8
  <2> QED
    BY <1>1, <1>5, <1>9, <2>1, <2>2 DEF WalletsHeld
<1> QED
  BY <1>7, <1>10

\* The write of a player who joins.
LEMMA UpsertFields ==
  ASSUME WalletsKept, NEW k \in Tables, NEW p \in Ids, Db!JoinUpsert(k, p)
  PROVE  /\ p \in DOMAIN joining[k] /\ joining[k][p].step = "upsert"
         /\ joining' = [j \in Tables |-> joining'[j]]
         /\ \A j \in Tables : j # k => joining'[j] = joining[j]
         /\ IsArrivals(joining'[k]) /\ DOMAIN joining'[k] = DOMAIN joining[k]
         /\ joining'[k][p] = [step |-> "add", wallet |-> joining[k][p].wallet]
         /\ \A q \in DOMAIN joining[k] : q # p => joining'[k][q] = joining[k][q]
         /\ UNCHANGED <<tables, threads, schema, stops, held, brought>>
         /\ \/ schema = "ready" /\ rows' = Db!Put(rows, p, Db!Stored(joining[k][p].wallet))
            \/ (schema = "missing" \/ MayFail) /\ rows' = rows
<1>1. /\ joining = [j \in Tables |-> joining[j]] /\ IsArrivals(joining[k])
  BY DEF WalletsKept
<1>2. /\ p \in DOMAIN joining[k] /\ joining[k][p].step = "upsert"
      /\ joining' = [joining EXCEPT ![k] = [joining[k] EXCEPT ![p] =
                       [joining[k][p] EXCEPT !.step = "add"]]]
      /\ UNCHANGED <<tables, threads, schema, stops, held, brought>>
      /\ \/ schema = "ready" /\ rows' = Db!Put(rows, p, Db!Stored(joining[k][p].wallet))
         \/ (schema = "missing" \/ MayFail) /\ rows' = rows
  BY DEF Db!JoinUpsert
<1>3. joining[k][p] = [step |-> joining[k][p].step, wallet |-> joining[k][p].wallet]
      /\ joining[k][p].wallet \in Nat
  BY <1>1, <1>2 DEF IsArrivals
<1>4. [joining[k][p] EXCEPT !.step = "add"] = [step |-> "add", wallet |-> joining[k][p].wallet]
  BY <1>3
<1> DEFINE r == [step |-> "add", wallet |-> joining[k][p].wallet]
           a == [joining[k] EXCEPT ![p] = r]
<1>5. r = [step |-> r.step, wallet |-> r.wallet] /\ r.wallet \in Nat
  BY <1>3
<1> HIDE DEF r
<1>6. /\ DOMAIN a = DOMAIN joining[k] /\ a[p] = r /\ a = [q \in DOMAIN a |-> a[q]]
      /\ \A q \in DOMAIN joining[k] : q # p => a[q] = joining[k][q]
  BY <1>1, <1>2 DEF IsArrivals
<1>7. joining' = [joining EXCEPT ![k] = a]
  BY <1>2, <1>4 DEF r
<1> HIDE DEF a
<1>8. IsArrivals(a)
  <2>1. \A q \in DOMAIN a : a[q] = [step |-> a[q].step, wallet |-> a[q].wallet] /\ a[q].wallet \in Nat
    BY <1>1, <1>5, <1>6 DEF IsArrivals
  <2> QED
    BY <1>1, <1>6, <2>1 DEF IsArrivals
<1>9. /\ joining'[k] = a /\ joining' = [j \in Tables |-> joining'[j]]
      /\ \A j \in Tables : j # k => joining'[j] = joining[j]
  BY <1>1, <1>7
<1>10. joining'[k][p] = [step |-> "add", wallet |-> joining[k][p].wallet]
  BY <1>6, <1>9 DEF r
<1> QED
  BY <1>2, <1>6, <1>8, <1>9, <1>10

LEMMA UpsertKept ==
  ASSUME WalletsKept, WalletsHeld, NEW k \in Tables, NEW p \in Ids, Db!JoinUpsert(k, p)
  PROVE  WalletsKept' /\ WalletsHeld'
<1>1. /\ p \in DOMAIN joining[k] /\ joining[k][p].step = "upsert"
      /\ joining' = [j \in Tables |-> joining'[j]]
      /\ \A j \in Tables : j # k => joining'[j] = joining[j]
      /\ IsArrivals(joining'[k]) /\ DOMAIN joining'[k] = DOMAIN joining[k]
      /\ joining'[k][p] = [step |-> "add", wallet |-> joining[k][p].wallet]
      /\ \A q \in DOMAIN joining[k] : q # p => joining'[k][q] = joining[k][q]
      /\ UNCHANGED <<tables, threads, schema, stops, held, brought>>
      /\ \/ schema = "ready" /\ rows' = Db!Put(rows, p, Db!Stored(joining[k][p].wallet))
         \/ (schema = "missing" \/ MayFail) /\ rows' = rows
  BY UpsertFields
<1>2. /\ tables = [j \in Tables |-> tables[j]] /\ threads \in Seq(ThreadKinds)
      /\ brought \in Nat /\ DOMAIN rows \subseteq Ids
      /\ \A j \in Tables : /\ IsTable(tables[j]) /\ IsArrivals(joining[j])
                           /\ ChipsOf(tables[j], joining[j]) < WordSize
  BY DEF WalletsKept
<1>3. /\ \A q \in DOMAIN joining[k] : joining'[k][q].wallet = joining[k][q].wallet
  BY <1>1
<1>4. Db!Coming(joining'[k]) = Db!Coming(joining[k])
  BY <1>1, <1>3 DEF Db!Coming
<1>5. \A j \in Tables : /\ IsTable(tables[j]) /\ IsArrivals(joining'[j])
                        /\ ChipsOf(tables[j], joining'[j]) < WordSize
  BY <1>1, <1>2, <1>4 DEF ChipsOf
<1>6. DOMAIN rows' \subseteq Ids
  BY <1>1, <1>2 DEF Db!Put
<1>7. WalletsKept'
  BY <1>1, <1>2, <1>5, <1>6 DEF WalletsKept
<1>8. /\ held \in [Ids -> SUBSET (0..(WordSize - 1))]
      /\ \A j \in Tables : \A q \in Db!Seated(tables[j]) : tables[j].wallet[q] \in held[q]
      /\ \A j \in Tables : \A q \in DOMAIN joining[j] : joining[j][q].wallet \in held[q]
      /\ \A i \in 1..Len(threads) :
           threads[i].op = "upsert" => threads[i].wallet \in held[threads[i].id]
      /\ \A q \in DOMAIN rows : \E w \in held[q] : rows[q] = Db!Stored(w)
  BY DEF WalletsHeld
<1>9. \A j \in Tables : \A q \in DOMAIN joining'[j] : joining'[j][q].wallet \in held[q]
  BY <1>1, <1>3, <1>8
<1>10. \A q \in DOMAIN rows' : \E w \in held[q] : rows'[q] = Db!Stored(w)
  <2>1. CASE rows' = rows
    BY <1>8, <2>1
  <2>2. CASE rows' = Db!Put(rows, p, Db!Stored(joining[k][p].wallet))
    <3>1. /\ DOMAIN rows' = DOMAIN rows \cup {p} /\ rows'[p] = Db!Stored(joining[k][p].wallet)
          /\ \A q \in DOMAIN rows : q # p => rows'[q] = rows[q]
      BY <2>2 DEF Db!Put
    <3>2. joining[k][p].wallet \in held[p]
      BY <1>1, <1>8
    <3> QED
      BY <1>8, <3>1, <3>2
  <2> QED
    BY <1>1, <2>1, <2>2
<1>11. WalletsHeld'
  BY <1>1, <1>8, <1>9, <1>10 DEF WalletsHeld
<1> QED
  BY <1>7, <1>11

\* add_player, for a player who joins.
LEMMA AddFields ==
  ASSUME WalletsKept, NEW k \in Tables, NEW p \in Ids, Db!JoinAdd(k, p)
  PROVE  LET t == tables[k]
             u == tables'[k]
             w == joining[k][p].wallet
         IN /\ p \in DOMAIN joining[k] /\ joining[k][p].step = "add" /\ w \in Nat
            /\ joining' = [j \in Tables |-> joining'[j]]
            /\ \A j \in Tables : j # k => joining'[j] = joining[j]
            /\ IsArrivals(joining'[k]) /\ DOMAIN joining'[k] = DOMAIN joining[k] \ {p}
            /\ \A q \in DOMAIN joining'[k] : joining'[k][q] = joining[k][q]
            /\ tables' = [j \in Tables |-> tables'[j]]
            /\ \A j \in Tables : j # k => tables'[j] = tables[j]
            /\ IsTable(u) /\ u.pot = t.pot /\ Db!Seated(u) = Db!Seated(t) \cup {p}
            /\ \A q \in Db!Seated(t) : u.wallet[q] = t.wallet[q]
            /\ p \notin Db!Seated(t) => u.wallet[p] = w
            /\ UNCHANGED <<threads, schema, rows, stops, held, brought>>
<1> DEFINE t == tables[k]
           w == joining[k][p].wallet
<1>1. /\ joining = [j \in Tables |-> joining[j]] /\ IsArrivals(joining[k])
      /\ tables = [j \in Tables |-> tables[j]] /\ IsTable(t)
  BY DEF WalletsKept
<1>2. /\ p \in DOMAIN joining[k] /\ joining[k][p].step = "add"
      /\ joining' = [joining EXCEPT ![k] = Db!Cut(joining[k], {p})]
      /\ tables' = IF p \in Db!Seated(t) THEN tables
                   ELSE [tables EXCEPT ![k] = [[t EXCEPT !.wallet = Db!Put(t.wallet, p, w)]
                                                 EXCEPT !.live = t.live \cup {p}]]
      /\ UNCHANGED <<threads, schema, rows, stops, held, brought>>
  <2>1. /\ p \in DOMAIN joining[k] /\ joining[k][p].step = "add"
        /\ joining' = [joining EXCEPT ![k] = Db!Cut(joining[k], {p})]
        /\ UNCHANGED <<threads, schema, rows, stops, held, brought>>
    BY DEF Db!JoinAdd
  <2>2. tables' = IF p \in Db!Seated(t) THEN tables
                  ELSE [[tables EXCEPT ![k].wallet = Db!Put(t.wallet, p, w)]
                          EXCEPT ![k].live = @ \cup {p}]
    BY DEF Db!JoinAdd
  <2>3. [[tables EXCEPT ![k].wallet = Db!Put(t.wallet, p, w)] EXCEPT ![k].live = @ \cup {p}]
          = [tables EXCEPT ![k] = [[t EXCEPT !.wallet = Db!Put(t.wallet, p, w)]
                                     EXCEPT !.live = t.live \cup {p}]]
    BY <1>1 DEF IsTable
  <2> QED
    BY <2>1, <2>2, <2>3
<1>3. w \in Nat
  BY <1>1, <1>2 DEF IsArrivals
<1> DEFINE a == Db!Cut(joining[k], {p})
<1>4. a = [q \in DOMAIN joining[k] \ {p} |-> joining[k][q]]
  BY DEF Db!Cut, Db!Restrict
<1> HIDE DEF a
<1>5. /\ DOMAIN a = DOMAIN joining[k] \ {p} /\ a = [q \in DOMAIN a |-> a[q]]
      /\ \A q \in DOMAIN a : a[q] = joining[k][q]
  BY <1>4
<1>6. IsArrivals(a)
  BY <1>1, <1>5 DEF IsArrivals
<1>7. /\ joining' = [j \in Tables |-> joining'[j]] /\ joining'[k] = a
      /\ \A j \in Tables : j # k => joining'[j] = joining[j]
  BY <1>1, <1>2 DEF a
<1> DEFINE v == [wallet |-> Db!Put(t.wallet, p, w), ring |-> t.ring, live |-> t.live \cup {p},
                 pot |-> t.pot]
<1>8. [[t EXCEPT !.wallet = Db!Put(t.wallet, p, w)] EXCEPT !.live = t.live \cup {p}] = v
  <2>1. t = [wallet |-> t.wallet, ring |-> t.ring, live |-> t.live, pot |-> t.pot]
    BY <1>1 DEF IsTable
  <2> DEFINE f == Db!Put(t.wallet, p, w)
  <2> HIDE DEF f, t
  <2> DEFINE e == [t EXCEPT !.wallet = f]
  <2>2. e = [wallet |-> f, ring |-> t.ring, live |-> t.live, pot |-> t.pot]
    BY <2>1
  <2> DEFINE l == t.live \cup {p}
             c == t.ring
             n == t.pot
  <2> HIDE DEF e, l, c, n
  <2>3. e = [wallet |-> f, ring |-> c, live |-> t.live, pot |-> n]
    BY <2>2 DEF c, n
  <2>4. [e EXCEPT !.live = l] = [wallet |-> f, ring |-> c, live |-> l, pot |-> n]
    BY <2>3
  <2> QED
    BY <2>4 DEF e, f, l, c, n
<1>9. /\ v.wallet = [q \in DOMAIN t.wallet \cup {p} |-> IF q = p THEN w ELSE t.wallet[q]]
      /\ v.ring = t.ring /\ v.live = t.live \cup {p} /\ v.pot = t.pot
  BY DEF Db!Put
<1>10. v = [wallet |-> v.wallet, ring |-> v.ring, live |-> v.live, pot |-> v.pot]
  OBVIOUS
<1> HIDE DEF v
<1>11. /\ IsTable(v) /\ Db!Seated(v) = Db!Seated(t) \cup {p}
       /\ v.wallet[p] = w
       /\ \A q \in Db!Seated(t) : q # p => v.wallet[q] = t.wallet[q]
  <2>1. v.wallet = [q \in DOMAIN v.wallet |-> v.wallet[q]] /\ DOMAIN v.wallet = DOMAIN t.wallet \cup {p}
    BY <1>9
  <2>2. \A q \in DOMAIN v.wallet : v.wallet[q] \in Nat
    BY <1>1, <1>3, <1>9 DEF IsTable, Db!Seated
  <2>3. IsTable(v)
    BY <1>1, <1>9, <1>10, <2>1, <2>2 DEF IsTable, Db!Seated
  <2> QED
    BY <1>9, <2>1, <2>3 DEF Db!Seated
<1>12. CASE p \in Db!Seated(t)
  <2>1. tables' = tables /\ Db!Seated(t) = Db!Seated(t) \cup {p}
    BY <1>2, <1>12
  <2> QED
    BY <1>1, <1>2, <1>3, <1>5, <1>6, <1>7, <1>12, <2>1
<1>13. CASE p \notin Db!Seated(t)
  <2>1. tables' = [tables EXCEPT ![k] = v]
    BY <1>2, <1>8, <1>13
  <2>2. /\ tables'[k] = v /\ tables' = [j \in Tables |-> tables'[j]]
        /\ \A j \in Tables : j # k => tables'[j] = tables[j]
    BY <1>1, <2>1
  <2>3. \A q \in Db!Seated(t) : v.wallet[q] = t.wallet[q]
    BY <1>11, <1>13
  <2> QED
    BY <1>2, <1>3, <1>5, <1>6, <1>7, <1>9, <1>11, <1>13, <2>2, <2>3
<1> QED
  BY <1>12, <1>13

LEMMA AddKept ==
  ASSUME WalletsKept, WalletsHeld, NEW k \in Tables, NEW p \in Ids, Db!JoinAdd(k, p)
  PROVE  WalletsKept' /\ WalletsHeld'
<1> DEFINE t == tables[k]
           u == tables'[k]
           w == joining[k][p].wallet
<1>1. /\ p \in DOMAIN joining[k] /\ joining[k][p].step = "add" /\ w \in Nat
      /\ joining' = [j \in Tables |-> joining'[j]]
      /\ \A j \in Tables : j # k => joining'[j] = joining[j]
      /\ IsArrivals(joining'[k]) /\ DOMAIN joining'[k] = DOMAIN joining[k] \ {p}
      /\ \A q \in DOMAIN joining'[k] : joining'[k][q] = joining[k][q]
      /\ tables' = [j \in Tables |-> tables'[j]]
      /\ \A j \in Tables : j # k => tables'[j] = tables[j]
      /\ IsTable(u) /\ u.pot = t.pot /\ Db!Seated(u) = Db!Seated(t) \cup {p}
      /\ \A q \in Db!Seated(t) : u.wallet[q] = t.wallet[q]
      /\ p \notin Db!Seated(t) => u.wallet[p] = w
      /\ UNCHANGED <<threads, schema, rows, stops, held, brought>>
  BY AddFields
<1>2. \A j \in Tables : /\ IsTable(tables[j]) /\ IsArrivals(joining[j])
                        /\ ChipsOf(tables[j], joining[j]) < WordSize
  BY DEF WalletsKept
<1>3. ChipsOf(u, joining'[k]) < WordSize
  <2> DEFINE f == Db!Coming(joining[k])
             g == Db!Coming(joining'[k])
             x == Db!Wallets(t)
             y == Db!Wallets(u)
  <2>1. f \in [Ids -> Nat] /\ g \in [Ids -> Nat] /\ x \in [Ids -> Nat] /\ y \in [Ids -> Nat]
    BY <1>1, <1>2, HoldsType DEF IsArrivals, Db!Coming
  <2>2. \A q \in Ids : q # p => g[q] = f[q] /\ y[q] = x[q]
    BY <1>1 DEF Db!Coming, Db!Wallets
  <2>3. f[p] = w /\ g[p] = 0 /\ y[p] <= x[p] + w
    BY <1>1, <1>2, <2>1 DEF Db!Coming, Db!Wallets
  <2>4. t.pot \in Nat
    BY <1>2 DEF IsTable
  <2> HIDE DEF f, g, x, y
  <2>5. /\ SumFunctionOnSet(f, Ids) \in Nat /\ SumFunctionOnSet(g, Ids) \in Nat
        /\ SumFunctionOnSet(g, Ids) + f[p] = SumFunctionOnSet(f, Ids) + g[p]
    BY <2>1, <2>2, SumChange, IdsAssumption
  <2>6. /\ SumFunctionOnSet(x, Ids) \in Nat /\ SumFunctionOnSet(y, Ids) \in Nat
        /\ SumFunctionOnSet(y, Ids) + x[p] = SumFunctionOnSet(x, Ids) + y[p]
    BY <2>1, <2>2, SumChange, IdsAssumption
  <2>7. /\ ChipsOf(t, joining[k]) = t.pot + SumFunctionOnSet(x, Ids) + SumFunctionOnSet(f, Ids)
        /\ ChipsOf(u, joining'[k]) = t.pot + SumFunctionOnSet(y, Ids) + SumFunctionOnSet(g, Ids)
    BY <1>1 DEF ChipsOf, Holds, f, g, x, y
  <2>8. f[p] \in Nat /\ g[p] \in Nat /\ x[p] \in Nat /\ y[p] \in Nat
    BY <2>1
  <2>9. SumFunctionOnSet(y, Ids) + SumFunctionOnSet(g, Ids)
          <= SumFunctionOnSet(x, Ids) + SumFunctionOnSet(f, Ids)
    BY <1>1, <2>3, <2>5, <2>6, <2>8
  <2>10. ChipsOf(u, joining'[k]) <= ChipsOf(t, joining[k])
         /\ ChipsOf(u, joining'[k]) \in Nat /\ ChipsOf(t, joining[k]) \in Nat
    BY <2>4, <2>5, <2>6, <2>7, <2>9
  <2> QED
    BY <1>2, <2>10, NumberAssumption
<1>4. \A j \in Tables : /\ IsTable(tables'[j]) /\ IsArrivals(joining'[j])
                        /\ ChipsOf(tables'[j], joining'[j]) < WordSize
  BY <1>1, <1>2, <1>3
<1>5. WalletsKept'
  <2>1. threads \in Seq(ThreadKinds) /\ brought \in Nat /\ DOMAIN rows \subseteq Ids
    BY DEF WalletsKept
  <2> QED
    BY <1>1, <1>4, <2>1 DEF WalletsKept
<1>6. /\ held \in [Ids -> SUBSET (0..(WordSize - 1))]
      /\ \A j \in Tables : \A q \in Db!Seated(tables[j]) : tables[j].wallet[q] \in held[q]
      /\ \A j \in Tables : \A q \in DOMAIN joining[j] : joining[j][q].wallet \in held[q]
      /\ \A i \in 1..Len(threads) :
           threads[i].op = "upsert" => threads[i].wallet \in held[threads[i].id]
      /\ \A q \in DOMAIN rows : \E x \in held[q] : rows[q] = Db!Stored(x)
  BY DEF WalletsHeld
<1>7. \A q \in Db!Seated(u) : u.wallet[q] \in held[q]
  <2>1. \A q \in Db!Seated(t) : u.wallet[q] \in held[q]
    BY <1>1, <1>6
  <2>2. p \notin Db!Seated(t) => u.wallet[p] \in held[p]
    BY <1>1, <1>6
  <2> QED
    BY <1>1, <2>1, <2>2
<1>8. \A j \in Tables : \A q \in Db!Seated(tables'[j]) : tables'[j].wallet[q] \in held[q]
  BY <1>1, <1>6, <1>7
<1>9. \A j \in Tables : \A q \in DOMAIN joining'[j] : joining'[j][q].wallet \in held[q]
  BY <1>1, <1>6
<1>10. WalletsHeld'
  BY <1>1, <1>6, <1>8, <1>9 DEF WalletsHeld
<1> QED
  BY <1>5, <1>10

\* and a thread, whichever runs next.
LEMMA RunKept ==
  ASSUME WalletsKept, WalletsHeld, Db!Run
  PROVE  WalletsKept' /\ WalletsHeld'
<1>1. threads \in Seq(ThreadKinds) /\ DOMAIN threads = 1..Len(threads)
  BY LenProperties DEF WalletsKept
<1>2. PICK i \in 1..Len(threads) :
        /\ threads' = Db!RemoveAt(threads, i)
        /\ Db!Fail \/ Db!RunUpsert(threads[i]) \/ Db!RunDelete(threads[i])
        /\ UNCHANGED <<tables, joining, schema, stops, held, brought>>
  BY <1>1, Zenon DEF Db!Run
<1> DEFINE th == threads[i]
<1>3. th \in ThreadKinds /\ th.id \in Ids /\ (th.op = "upsert" => th.wallet \in held[th.id])
  <2>1. th \in ThreadKinds
    BY <1>1, ElementOfSeq
  <2>2. th.id \in Ids
    BY <2>1 DEF ThreadKinds
  <2> QED
    BY <2>1, <2>2 DEF WalletsHeld
<1>4. threads' \in Seq(ThreadKinds)
  BY <1>1, <1>2, Taken
<1>5. \A j \in 1..Len(threads') : \E l \in 1..Len(threads) : threads'[j] = threads[l]
  BY <1>1, <1>2, TakenFrom
<1>6. /\ DOMAIN rows \subseteq Ids /\ \A q \in DOMAIN rows : \E w \in held[q] : rows[q] = Db!Stored(w)
  BY DEF WalletsKept, WalletsHeld
<1>7. /\ DOMAIN rows' \subseteq Ids
      /\ \A q \in DOMAIN rows' : \E w \in held[q] : rows'[q] = Db!Stored(w)
  <2>1. CASE Db!Fail
    BY <1>6, <2>1 DEF Db!Fail
  <2>2. CASE Db!RunUpsert(th)
    <3>1. /\ DOMAIN rows' = DOMAIN rows \cup {th.id} /\ rows'[th.id] = Db!Stored(th.wallet)
          /\ \A q \in DOMAIN rows : q # th.id => rows'[q] = rows[q]
      BY <2>2 DEF Db!RunUpsert, Db!Put
    <3>2. th.wallet \in held[th.id]
      BY <1>3, <2>2 DEF Db!RunUpsert
    <3> QED
      BY <1>3, <1>6, <3>1, <3>2
  <2>3. CASE Db!RunDelete(th)
    <3>1. rows' = Db!Cut(rows, {th.id})
      BY <2>3 DEF Db!RunDelete
    <3>2. rows' = [q \in DOMAIN rows \ {th.id} |-> rows[q]]
      BY <3>1 DEF Db!Cut, Db!Restrict
    <3> QED
      BY <1>6, <3>2
  <2> QED
    BY <1>2, <2>1, <2>2, <2>3
<1>8. WalletsKept'
  BY <1>2, <1>4, <1>7 DEF WalletsKept
<1>9. \A j \in 1..Len(threads') :
        threads'[j].op = "upsert" => threads'[j].wallet \in held[threads'[j].id]
  BY <1>5 DEF WalletsHeld
<1>10. WalletsHeld'
  BY <1>2, <1>7, <1>9 DEF WalletsHeld
<1> QED
  BY <1>8, <1>10

\* At a new table there is nobody and nothing.
LEMMA EmptyTable ==
  /\ IsTable(Db!NewTable) /\ Db!Seated(Db!NewTable) = {} /\ Db!NewTable.pot = 0
  /\ IsArrivals(<<>>) /\ DOMAIN <<>> = {}
  /\ ChipsOf(Db!NewTable, <<>>) = 0
<1>1. Db!NewTable.wallet = <<>> /\ Db!NewTable.pot = 0
  BY DEF Db!NewTable
<1>2. DOMAIN <<>> = {} /\ <<>> = [p \in {} |-> <<>>[p]]
  OBVIOUS
<1>3. IsTable(Db!NewTable) /\ Db!Seated(Db!NewTable) = {}
  BY <1>2 DEF Db!NewTable, IsTable, Db!Seated
<1>4. IsArrivals(<<>>)
  BY <1>2 DEF IsArrivals
<1>5. \A p \in Ids : Db!Wallets(Db!NewTable)[p] = 0 /\ Db!Coming(<<>>)[p] = 0
  BY <1>2, <1>3 DEF Db!Wallets, Db!Coming
<1>6. /\ SumFunctionOnSet(Db!Wallets(Db!NewTable), Ids) = 0 * Cardinality(Ids)
      /\ SumFunctionOnSet(Db!Coming(<<>>), Ids) = 0 * Cardinality(Ids)
  BY <1>5, SumConstant, IdsAssumption
<1>7. Cardinality(Ids) \in Nat
  BY FS_CardinalityType, IdsAssumption
<1>8. ChipsOf(Db!NewTable, <<>>) = 0
  BY <1>1, <1>6, <1>7 DEF ChipsOf, Holds
<1> QED
  BY <1>1, <1>2, <1>3, <1>4, <1>8

\* With the tables empty and no threads, all that there is are the rows.
LEMMA EmptyKept ==
  ASSUME tables' = [k \in Tables |-> Db!NewTable], joining' = [k \in Tables |-> <<>>],
         threads' = <<>>, brought' \in Nat, DOMAIN rows' \subseteq Ids,
         held' \in [Ids -> SUBSET (0..(WordSize - 1))],
         \A q \in DOMAIN rows' : \E w \in held'[q] : rows'[q] = Db!Stored(w)
  PROVE  WalletsKept' /\ WalletsHeld'
<1>1. /\ \A k \in Tables : tables'[k] = Db!NewTable /\ joining'[k] = <<>>
      /\ tables' = [k \in Tables |-> tables'[k]] /\ joining' = [k \in Tables |-> joining'[k]]
      /\ threads' \in Seq(ThreadKinds) /\ Len(threads') = 0
  BY EmptySeq
<1>2. \A k \in Tables : /\ IsTable(tables'[k]) /\ IsArrivals(joining'[k])
                        /\ ChipsOf(tables'[k], joining'[k]) < WordSize
  BY <1>1, EmptyTable, NumberAssumption
<1>3. WalletsKept'
  BY <1>1, <1>2 DEF WalletsKept
<1>4. /\ \A k \in Tables : Db!Seated(tables'[k]) = {} /\ DOMAIN joining'[k] = {}
      /\ 1..0 = {}
  BY <1>1, EmptyTable
<1>5. WalletsHeld'
  BY <1>1, <1>4 DEF WalletsHeld
<1> QED
  BY <1>3, <1>5

\* Every step keeps what is remembered.
LEMMA WalletsStep ==
  ASSUME WalletsKept, WalletsHeld, [Db!Next]_(Db!vars)
  PROVE  WalletsKept' /\ WalletsHeld'
<1>1. CASE UNCHANGED Db!vars
  BY <1>1 DEF Db!vars, WalletsKept, WalletsHeld
<1>2. CASE Db!Run
  BY <1>2, RunKept
<1>3. CASE Db!InitSchema
  BY <1>3 DEF Db!InitSchema, WalletsKept, WalletsHeld
<1>4. CASE Db!Stop
  BY <1>4, EmptyKept DEF Db!Stop, WalletsKept, WalletsHeld
<1>5. ASSUME NEW k \in Tables, NEW p \in Ids,
             \/ Db!Start(k) \/ Db!LastRound(k)
             \/ Db!Bet(k, p) \/ Db!FoldHand(k, p) \/ Db!Leave(k, p)
      PROVE  WalletsKept' /\ WalletsHeld'
  <2>1. IsTable(tables[k])
    BY DEF WalletsKept
  <2> QED
    BY <1>5, <2>1, TableCalled, CalledKept
<1>6. ASSUME NEW k \in Tables, Db!Start(k) \/ Db!LastRound(k)
      PROVE  WalletsKept' /\ WalletsHeld'
  <2>1. IsTable(tables[k])
    BY DEF WalletsKept
  <2> QED
    BY <1>6, <2>1, StartCalled, LastRoundCalled, CalledKept
<1>7. ASSUME NEW k \in Tables, NEW p \in Ids,
             Db!Fetch(k, p) \/ Db!JoinUpsert(k, p) \/ Db!JoinAdd(k, p)
      PROVE  WalletsKept' /\ WalletsHeld'
  BY <1>7, FetchKept, UpsertKept, AddKept
<1> QED
  BY <1>1, <1>2, <1>3, <1>4, <1>5, <1>6, <1>7 DEF Db!Next

\* At the start nothing is remembered.
LEMMA WalletsStart == Db!Init => WalletsKept /\ WalletsHeld
<1> SUFFICES ASSUME Db!Init
             PROVE  WalletsKept /\ WalletsHeld
  OBVIOUS
<1>1. /\ \A k \in Tables : tables[k] = Db!NewTable /\ joining[k] = <<>>
      /\ tables = [k \in Tables |-> tables[k]] /\ joining = [k \in Tables |-> joining[k]]
      /\ threads \in Seq(ThreadKinds) /\ Len(threads) = 0 /\ brought = 0
      /\ DOMAIN rows = {} /\ held = [p \in Ids |-> {}]
  BY EmptySeq, EmptyTable DEF Db!Init
<1>2. \A k \in Tables : /\ IsTable(tables[k]) /\ IsArrivals(joining[k])
                        /\ ChipsOf(tables[k], joining[k]) < WordSize
                        /\ Db!Seated(tables[k]) = {} /\ DOMAIN joining[k] = {}
  BY <1>1, EmptyTable, NumberAssumption
<1> QED
  BY <1>1, <1>2 DEF WalletsKept, WalletsHeld

\* Whoever joins a table brings a new wallet or one they have had, also one that
\* does not fit the column, whatever writes fail, are lost or overtake others.
THEOREM WalletsComeBack == Db!Spec => []WalletComesBack
<1>1. Db!Init => WalletsKept /\ WalletsHeld
  BY WalletsStart
<1>2. WalletsKept /\ WalletsHeld /\ [Db!Next]_(Db!vars) => (WalletsKept /\ WalletsHeld)'
  BY WalletsStep
<1>3. WalletsKept /\ WalletsHeld => WalletComesBack
  BY DEF WalletsKept, WalletsHeld, WalletComesBack
<1> QED
  BY <1>1, <1>2, <1>3, PTL DEF Db!Spec

-----------------------------------------------------------------------------
(* With threads in order and no failures, the rows follow the tables.       *)

\* The chips in the pots of all tables.
AllPots == SumFunctionOnSet([k \in Tables |-> tables[k].pot], Tables)

\* E is a course of the threads under way that starts with no less than what the
\* rows are worth, in which the rows and at its end also the pots are never worth
\* more than was brought, whoever sits ends with their wallet, and who is joining
\* has theirs all along.
Backs(E) ==
  /\ Course(E, threads)
  /\ \A p \in Ids : Db!Saved(p) \in Nat /\ Db!Saved(p) <= E[0][p]
  /\ \A i \in 0..Len(threads) : SumFunctionOnSet(E[i], Ids) <= brought
  /\ SumFunctionOnSet(E[Len(threads)], Ids) + AllPots <= brought
  /\ \A k \in Tables : \A p \in Db!Seated(tables[k]) : E[Len(threads)][p] = tables[k].wallet[p]
  /\ \A k \in Tables : \A p \in DOMAIN joining[k] :
       \A i \in 0..Len(threads) : E[i][p] = joining[k][p].wallet

\* The last write of player p's row, under way or done, writes this wallet.
Settles(under, saved, p, wallet) ==
  \/ Writes(under, p, wallet)
  \/ Spares(under, p) /\ p \in DOMAIN saved /\ saved[p] = Db!Stored(wallet)

\* A player is at one table, and no thread is under way for one who is joining.
OnePlace ==
  /\ schema = "ready"
  /\ \A k \in Tables : \A p \in DOMAIN joining[k] :
       Spares(threads, p) /\ \A j \in Tables : p \notin Db!Seated(tables[j])
  /\ \A j, k \in Tables : j # k => /\ DOMAIN joining[j] \cap DOMAIN joining[k] = {}
                                   /\ Db!Seated(tables[j]) \cap Db!Seated(tables[k]) = {}

\* Everybody at a table has their wallet written, and so has who comes to it next.
RowsWritten ==
  /\ \A k \in Tables : \A p \in Db!Seated(tables[k]) : Settles(threads, rows, p, tables[k].wallet[p])
  /\ \A k \in Tables : \A p \in DOMAIN joining[k] :
       joining[k][p].step = "add" => Settles(threads, rows, p, joining[k][p].wallet)

RowsFollow == OnePlace /\ RowsWritten /\ \E E : Backs(E)

\* What no thread writes stays the same in the whole course.
LEMMA CourseSteady ==
  ASSUME NEW s \in Seq(ThreadKinds), NEW E, Course(E, s), NEW p \in Ids, Spares(s, p)
  PROVE  \A i \in 0..Len(s) : E[i][p] = E[0][p]
<1> DEFINE n == Len(s)
           Bad == {i \in 0..n : E[i][p] # E[0][p]}
<1>1. n \in Nat
  BY LenProperties
<1>2. SUFFICES ASSUME Bad # {}
               PROVE  FALSE
  OBVIOUS
<1>3. PICK i \in Bad : \A j \in Bad : i <= j
  BY <1>1, <1>2, Least, Bad \subseteq Nat, Zenon
<1>4. i \in 1..n /\ i - 1 \in 0..n /\ i - 1 \notin Bad
  BY <1>1, <1>3
<1>5. E[i-1][p] = E[0][p]
  BY <1>4
<1>6. E[i] = [E[i-1] EXCEPT ![s[i].id] = Worth(s[i])] /\ E[i-1] \in [Ids -> Nat] /\ s[i].id # p
  BY <1>4 DEF Course, Spares
<1>7. E[i][p] = E[i-1][p]
  BY <1>6
<1> QED
  BY <1>3, <1>5, <1>7

LEMMA PotsOf ==
  ASSUME IsFiniteSet(Tables), WalletsKept
  PROVE  /\ AllPots \in Nat /\ \A k \in Tables : tables[k].pot \in Nat /\ tables[k].pot <= AllPots
<1> DEFINE f == [k \in Tables |-> tables[k].pot]
<1>1. \A k \in Tables : f[k] \in Nat /\ f[k] = tables[k].pot
  BY DEF WalletsKept, IsTable
<1> HIDE DEF f
<1>2. SumFunctionOnSet(f, Tables) \in Nat /\ \A k \in Tables : f[k] <= SumFunctionOnSet(f, Tables)
  BY <1>1, SumType, SumTerm
<1> QED
  BY <1>1, <1>2 DEF AllPots, f

\* A course that goes on with the threads of a call of table k.
LEMMA CalledBacks ==
  ASSUME IsFiniteSet(Tables), WalletsKept, WalletsKept', OnePlace, NEW E, Backs(E),
         NEW k \in Tables, NEW u, NEW new, IsCalled(k, u, new)
  PROVE  \E G : Backs(G)'
<1> DEFINE t == tables[k]
           n == Len(threads)
           m == Len(new)
           W == Db!Wallets(t)
           V == Db!Wallets(u)
<1>1. /\ tables' = [j \in Tables |-> tables'[j]] /\ tables'[k] = u
      /\ \A j \in Tables : j # k => tables'[j] = tables[j]
      /\ IsTable(t) /\ IsTable(u) /\ Db!Seated(u) \subseteq Db!Seated(t)
      /\ Holds(u) <= Holds(t) /\ Holds(u) \in Nat /\ Holds(t) \in Nat
      /\ joining' = joining /\ rows' = rows /\ brought' = brought
      /\ new \in Seq(ThreadKinds) /\ n \in Nat /\ m \in Nat /\ Len(threads') = n + m
      /\ \A i \in 1..(n + m) :
           /\ i <= n => i \in 1..n /\ threads'[i] = threads[i]
           /\ ~(i <= n) => i - n \in 1..m /\ threads'[i] = new[i - n]
  BY BecomesFields
<1>2. PICK F : /\ Course(F, new) /\ F[0] = W /\ F[m] = V
               /\ \A i \in 0..m : /\ SumFunctionOnSet(F[i], Ids) <= Holds(t)
                                  /\ \A p \in Ids \ Db!Seated(t) : F[i][p] = 0
  BY DEF IsCalled, IsCall
<1>3. /\ \A i \in 1..m : new[i].id \in Db!Seated(t)
  BY DEF IsCalled, IsCall
<1>4. /\ E \in [0..n -> [Ids -> Nat]]
      /\ \A i \in 1..n : E[i] = [E[i-1] EXCEPT ![threads[i].id] = Worth(threads[i])]
      /\ F \in [0..m -> [Ids -> Nat]]
      /\ \A i \in 1..m : F[i] = [F[i-1] EXCEPT ![new[i].id] = Worth(new[i])]
  BY <1>2 DEF Backs, Course
<1>5. /\ \A p \in Db!Seated(t) : E[n][p] = W[p] /\ p \in Ids
      /\ \A i \in 0..n : SumFunctionOnSet(E[i], Ids) <= brought
      /\ SumFunctionOnSet(E[n], Ids) + AllPots <= brought
  BY <1>1 DEF Backs, IsTable, Db!Wallets
<1>6. brought \in Nat /\ AllPots \in Nat /\ t.pot \in Nat /\ t.pot <= AllPots
  BY PotsOf DEF WalletsKept
<1>7. /\ W \in [Ids -> Nat] /\ V \in [Ids -> Nat]
      /\ SumFunctionOnSet(W, Ids) \in Nat /\ SumFunctionOnSet(V, Ids) \in Nat
      /\ Holds(t) = t.pot + SumFunctionOnSet(W, Ids)
      /\ Holds(u) = u.pot + SumFunctionOnSet(V, Ids) /\ u.pot \in Nat
  BY <1>1, HoldsType DEF Holds, IsTable
<1>8. \A p \in Db!Seated(u) : V[p] = u.wallet[p]
  BY <1>1 DEF IsTable, Db!Wallets
<1> HIDE DEF W, V, n, m
<1> DEFINE Mix(f) == [p \in Ids |-> IF p \in Db!Seated(t) THEN f[p] ELSE E[n][p]]
           G == [i \in 0..(n + m) |-> IF i <= n THEN E[i] ELSE Mix(F[i - n])]
<1>9. E[n] \in [Ids -> Nat] /\ Mix(F[0]) = E[n]
  <2>1. E[n] \in [Ids -> Nat]
    BY <1>1, <1>4
  <2>2. \A p \in Ids : Mix(F[0])[p] = E[n][p]
    BY <1>2, <1>5
  <2>3. Mix(F[0]) = [p \in Ids |-> Mix(F[0])[p]]
    OBVIOUS
  <2> QED
    BY <2>1, <2>2, <2>3
<1>10. \A i \in 0..m : F[i] \in [Ids -> Nat] /\ Mix(F[i]) \in [Ids -> Nat]
  BY <1>4, <1>9
<1>11. ASSUME NEW i \in 0..m
       PROVE  /\ SumFunctionOnSet(Mix(F[i]), Ids) \in Nat
              /\ SumFunctionOnSet(F[i], Ids) \in Nat
              /\ SumFunctionOnSet(E[n], Ids) \in Nat
              /\ SumFunctionOnSet(Mix(F[i]), Ids) + SumFunctionOnSet(W, Ids)
                   = SumFunctionOnSet(E[n], Ids) + SumFunctionOnSet(F[i], Ids)
  <2> DEFINE f == F[i]
             g == Mix(F[i])
             h == E[n]
             b == [p \in Ids |-> g[p] + W[p]]
  <2>1. /\ f \in [Ids -> Nat] /\ g \in [Ids -> Nat] /\ h \in [Ids -> Nat]
    BY <1>9, <1>10
  <2>2. \A p \in Ids : g[p] + W[p] = h[p] + f[p]
    <3>1. \A p \in Ids \ Db!Seated(t) : f[p] = 0 /\ W[p] = 0 /\ g[p] = h[p]
      BY <1>2 DEF W, Db!Wallets
    <3>2. \A p \in Ids \cap Db!Seated(t) : g[p] = f[p] /\ h[p] = W[p]
      BY <1>5
    <3> QED
      BY <1>7, <2>1, <3>1, <3>2
  <2> HIDE DEF f, g, h
  <2>3. \A p \in Ids : b[p] = g[p] + W[p] /\ b[p] = h[p] + f[p]
    BY <2>2
  <2> HIDE DEF b
  <2>4. /\ SumFunctionOnSet(b, Ids) = SumFunctionOnSet(g, Ids) + SumFunctionOnSet(W, Ids)
        /\ SumFunctionOnSet(b, Ids) = SumFunctionOnSet(h, Ids) + SumFunctionOnSet(f, Ids)
    BY <1>7, <2>1, <2>3, SumAdd, IdsAssumption
  <2>5. /\ SumFunctionOnSet(f, Ids) \in Nat /\ SumFunctionOnSet(g, Ids) \in Nat
        /\ SumFunctionOnSet(h, Ids) \in Nat
    BY <2>1, SumType, IdsAssumption
  <2> QED
    BY <2>4, <2>5 DEF f, g, h
<1> HIDE DEF Mix
<1>12. /\ \A i \in 0..(n + m) : G[i] = IF i <= n THEN E[i] ELSE Mix(F[i - n])
       /\ G \in [0..(n + m) -> [Ids -> Nat]]
  <2>1. \A i \in 0..(n + m) : (i <= n => i \in 0..n) /\ (~(i <= n) => i - n \in 0..m)
    BY <1>1
  <2> QED
    BY <1>4, <1>10, <2>1
<1> HIDE DEF G
<1>13. \A i \in 0..m : n + i \in 0..(n + m) /\ G[n + i] = Mix(F[i])
  <2>1. \A i \in 0..m : n + i \in 0..(n + m) /\ (n + i) - n = i /\ (n + i <= n => i = 0)
    BY <1>1
  <2>2. \A i \in 0..m : i # 0 => ~(n + i <= n)
    BY <2>1
  <2>3. n \in 0..(n + m) /\ n <= n /\ n + 0 = n
    BY <1>1
  <2> QED
    BY <1>9, <1>12, <2>1, <2>2, <2>3
<1>14. Course(G, threads')
  <2>1. ASSUME NEW i \in 1..(n + m)
        PROVE  G[i] = [G[i-1] EXCEPT ![threads'[i].id] = Worth(threads'[i])]
    <3>1. CASE i <= n
      <4>1. i \in 1..n /\ i \in 0..(n + m) /\ i - 1 \in 0..(n + m) /\ i - 1 <= n
        BY <1>1, <3>1
      <4>2. G[i] = E[i] /\ G[i-1] = E[i-1]
        BY <1>12, <3>1, <4>1
      <4> QED
        BY <1>1, <1>4, <3>1, <4>1, <4>2
    <3>2. CASE ~(i <= n)
      <4> DEFINE l == i - n
      <4>1. /\ l \in 1..m /\ l \in 0..m /\ l - 1 \in 0..m /\ i = n + l /\ i - 1 = n + (l - 1)
            /\ threads'[i] = new[l]
        BY <1>1, <3>2
      <4> HIDE DEF l
      <4>2. G[i] = Mix(F[l]) /\ G[i-1] = Mix(F[l-1])
        BY <1>13, <4>1
      <4>3. F[l] = [F[l-1] EXCEPT ![new[l].id] = Worth(new[l])] /\ new[l].id \in Db!Seated(t)
            /\ F[l-1] \in [Ids -> Nat] /\ F[l] \in [Ids -> Nat]
        BY <1>3, <1>4, <4>1 DEF m
      <4>4. Mix(F[l]) = [Mix(F[l-1]) EXCEPT ![new[l].id] = Worth(new[l])]
        BY <1>5, <4>3 DEF Mix
      <4> QED
        BY <4>1, <4>2, <4>4
    <3> QED
      BY <3>1, <3>2
  <2> QED
    BY <1>1, <1>12, <2>1 DEF Course
<1>15. ASSUME NEW i \in 0..(n + m)
       PROVE  SumFunctionOnSet(G[i], Ids) <= brought
  <2>1. CASE i <= n
    <3>1. i \in 0..n /\ G[i] = E[i]
      BY <1>1, <1>12, <2>1
    <3> QED
      BY <1>5, <3>1
  <2>2. CASE ~(i <= n)
    <3>1. i - n \in 0..m /\ G[i] = Mix(F[i - n])
      BY <1>1, <1>12, <2>2
    <3>2. SumFunctionOnSet(F[i - n], Ids) <= Holds(t)
      BY <1>2, <3>1 DEF m
    <3>3. /\ SumFunctionOnSet(Mix(F[i - n]), Ids) \in Nat
          /\ SumFunctionOnSet(F[i - n], Ids) \in Nat
          /\ SumFunctionOnSet(E[n], Ids) \in Nat
          /\ SumFunctionOnSet(Mix(F[i - n]), Ids) + SumFunctionOnSet(W, Ids)
               = SumFunctionOnSet(E[n], Ids) + SumFunctionOnSet(F[i - n], Ids)
      BY <1>11, <3>1
    <3>4. SumFunctionOnSet(Mix(F[i - n]), Ids) <= brought
      BY <1>5, <1>6, <1>7, <3>2, <3>3
    <3> QED
      BY <3>1, <3>4
  <2> QED
    BY <2>1, <2>2
<1>16. G[n + m] = Mix(V)
  BY <1>1, <1>2, <1>13 DEF m
<1>17. AllPots' + t.pot = AllPots + u.pot /\ AllPots' \in Nat
  <2> DEFINE f == [j \in Tables |-> tables[j].pot]
             g == [j \in Tables |-> tables'[j].pot]
  <2>1. \A j \in Tables : f[j] \in Nat /\ g[j] \in Nat /\ (j # k => g[j] = f[j])
    <3>1. \A j \in Tables : tables[j].pot \in Nat /\ tables'[j].pot \in Nat
      BY DEF WalletsKept, IsTable
    <3> QED
      BY <1>1, <3>1
  <2>2. f[k] = t.pot /\ g[k] = u.pot
    BY <1>1
  <2> HIDE DEF f, g
  <2>3. /\ SumFunctionOnSet(g, Tables) \in Nat
        /\ SumFunctionOnSet(g, Tables) + f[k] = SumFunctionOnSet(f, Tables) + g[k]
    BY <2>1, SumChange
  <2>4. AllPots = SumFunctionOnSet(f, Tables) /\ AllPots' = SumFunctionOnSet(g, Tables)
    BY DEF AllPots, f, g
  <2> QED
    BY <2>2, <2>3, <2>4
<1>18. SumFunctionOnSet(G[n + m], Ids) + AllPots' <= brought
  <2>1. m \in 0..m /\ F[m] = V
    BY <1>1, <1>2 DEF m
  <2>2. SumFunctionOnSet(Mix(V), Ids) + SumFunctionOnSet(W, Ids)
          = SumFunctionOnSet(E[n], Ids) + SumFunctionOnSet(V, Ids)
        /\ SumFunctionOnSet(Mix(V), Ids) \in Nat /\ SumFunctionOnSet(E[n], Ids) \in Nat
    BY <1>11, <2>1
  <2> DEFINE a == SumFunctionOnSet(Mix(V), Ids)
             b == SumFunctionOnSet(E[n], Ids)
             c == SumFunctionOnSet(W, Ids)
             d == SumFunctionOnSet(V, Ids)
  <2>3. /\ a \in Nat /\ b \in Nat /\ c \in Nat /\ d \in Nat /\ a + c = b + d
        /\ b + AllPots <= brought /\ u.pot + d <= t.pot + c
        /\ SumFunctionOnSet(G[n + m], Ids) = a
    BY <1>1, <1>5, <1>7, <1>16, <2>2
  <2> DEFINE x == t.pot
             y == u.pot
             P == AllPots
             Q == AllPots'
  <2>4. /\ x \in Nat /\ y \in Nat /\ P \in Nat /\ Q \in Nat /\ brought \in Nat
        /\ Q + x = P + y /\ b + P <= brought /\ y + d <= x + c
    BY <1>6, <1>7, <1>17, <2>3
  <2> HIDE DEF a, b, c, d, x, y, P, Q
  <2>5. a + Q <= brought
    BY <2>3, <2>4
  <2> QED
    BY <2>3, <2>5 DEF Q
<1>19. ASSUME NEW j \in Tables, NEW p \in Db!Seated(tables'[j])
       PROVE  G[n + m][p] = tables'[j].wallet[p]
  <2>1. CASE j = k
    BY <1>1, <1>5, <1>8, <1>16, <2>1 DEF Mix
  <2>2. CASE j # k
    <3>1. tables'[j] = tables[j] /\ p \in Db!Seated(tables[j]) /\ p \notin Db!Seated(t)
      BY <1>1, <1>19, <2>2 DEF OnePlace
    <3>2. p \in Ids /\ E[n][p] = tables[j].wallet[p]
      BY <3>1 DEF Backs, WalletsKept, IsTable, n
    <3> QED
      BY <1>16, <3>1, <3>2 DEF Mix
  <2> QED
    BY <2>1, <2>2
<1>20. ASSUME NEW j \in Tables, NEW p \in DOMAIN joining[j], NEW i \in 0..(n + m)
       PROVE  G[i][p] = joining[j][p].wallet
  <2>1. p \in Ids /\ p \notin Db!Seated(t)
    BY DEF OnePlace, WalletsKept, IsArrivals
  <2>2. \A l \in 0..n : E[l][p] = joining[j][p].wallet
    BY DEF Backs, n
  <2>3. CASE i <= n
    <3>1. i \in 0..n /\ G[i] = E[i]
      BY <1>1, <1>12, <2>3
    <3> QED
      BY <2>2, <3>1
  <2>4. CASE ~(i <= n)
    <3>1. G[i] = Mix(F[i - n]) /\ n \in 0..n
      BY <1>1, <1>12, <2>4
    <3> QED
      BY <2>1, <2>2, <3>1 DEF Mix
  <2> QED
    BY <2>3, <2>4
<1>21. \A p \in Ids : Db!Saved(p)' \in Nat /\ Db!Saved(p)' <= G[0][p]
  <2>1. G[0] = E[0]
    BY <1>1, <1>12
  <2>2. \A p \in Ids : Db!Saved(p)' = Db!Saved(p)
    BY <1>1 DEF Db!Saved
  <2> QED
    BY <2>1, <2>2 DEF Backs
<1>22. PICK H : H = G
  OBVIOUS
<1>23. Backs(H)'
  <2>1. Len(threads') = n + m
    BY <1>1
  <2>2. \A i \in 0..Len(threads') : SumFunctionOnSet(H[i], Ids) <= brought'
    BY <1>1, <1>15, <1>22, <2>1
  <2>3. SumFunctionOnSet(H[Len(threads')], Ids) + AllPots' <= brought'
    BY <1>1, <1>18, <1>22, <2>1
  <2>4. \A j \in Tables : \A p \in Db!Seated(tables'[j]) :
          H[Len(threads')][p] = tables'[j].wallet[p]
    BY <1>19, <1>22, <2>1
  <2>5. \A j \in Tables : \A p \in DOMAIN joining'[j] :
          \A i \in 0..Len(threads') : H[i][p] = joining'[j][p].wallet
    BY <1>1, <1>20, <1>22, <2>1
  <2> QED
    BY <1>14, <1>21, <1>22, <2>2, <2>3, <2>4, <2>5 DEF Backs
<1> QED
  BY <1>23

\* A call of a table writes the wallets that it changes, and its threads are
\* about players who sit there.
LEMMA CalledWritten ==
  ASSUME WalletsKept, OnePlace, RowsWritten,
         NEW k \in Tables, NEW u, NEW new, IsCalled(k, u, new)
  PROVE  OnePlace' /\ RowsWritten'
<1> DEFINE t == tables[k]
<1>1. /\ tables' = [j \in Tables |-> tables'[j]] /\ tables'[k] = u
      /\ \A j \in Tables : j # k => tables'[j] = tables[j]
      /\ Db!Seated(u) \subseteq Db!Seated(t)
      /\ joining' = joining /\ rows' = rows /\ schema' = schema
      /\ new \in Seq(ThreadKinds) /\ threads' = threads \o new
  BY BecomesFields
<1>2. threads \in Seq(ThreadKinds)
  BY DEF WalletsKept
<1>3. \A p : p \notin Db!Seated(t) => Spares(new, p)
  BY DEF IsCalled, IsCall, Spares
<1>4. ASSUME NEW p, Spares(new, p), NEW wallet, Settles(threads, rows, p, wallet)
      PROVE  Settles(threads', rows', p, wallet)
  BY <1>1, <1>2, <1>4, WrittenAfter DEF Settles
<1>5. \A j \in Tables : Db!Seated(tables'[j]) \subseteq Db!Seated(tables[j])
  BY <1>1
<1>6. OnePlace'
  <2>1. ASSUME NEW j \in Tables, NEW p \in DOMAIN joining[j]
        PROVE  Spares(threads', p)
    <3>1. Spares(threads, p) /\ Spares(new, p)
      BY <1>3 DEF OnePlace
    <3> QED
      BY <1>1, <1>2, <3>1, WrittenAfter
  <2> QED
    BY <1>1, <1>5, <2>1 DEF OnePlace
<1>7. ASSUME NEW j \in Tables, NEW p \in Db!Seated(tables'[j])
      PROVE  Settles(threads', rows', p, tables'[j].wallet[p])
  <2>1. CASE j = k
    <3>1. CASE Writes(new, p, u.wallet[p])
      BY <1>1, <1>2, <2>1, <3>1, WrittenAfter DEF Settles
    <3>2. CASE Spares(new, p) /\ u.wallet[p] = t.wallet[p]
      <4>1. Settles(threads, rows, p, t.wallet[p])
        BY <1>1, <1>5, <2>1 DEF RowsWritten
      <4> QED
        BY <1>1, <1>4, <2>1, <3>2, <4>1
    <3> QED
      BY <1>1, <2>1, <3>1, <3>2 DEF IsCalled, IsCall
  <2>2. CASE j # k
    <3>1. tables'[j] = tables[j] /\ p \in Db!Seated(tables[j]) /\ p \notin Db!Seated(t)
      BY <1>1, <1>7, <2>2 DEF OnePlace
    <3>2. Spares(new, p) /\ Settles(threads, rows, p, tables[j].wallet[p])
      BY <1>3, <3>1 DEF RowsWritten
    <3> QED
      BY <1>4, <3>1, <3>2
  <2> QED
    BY <2>1, <2>2
<1>8. ASSUME NEW j \in Tables, NEW p \in DOMAIN joining[j], joining[j][p].step = "add"
      PROVE  Settles(threads', rows', p, joining[j][p].wallet)
  <2>1. Spares(new, p) /\ Settles(threads, rows, p, joining[j][p].wallet)
    BY <1>3, <1>8 DEF OnePlace, RowsWritten
  <2> QED
    BY <1>1, <1>4, <2>1
<1> QED
  BY <1>1, <1>6, <1>7, <1>8 DEF RowsWritten

LEMMA PotsSame ==
  ASSUME \A k \in Tables : tables'[k].pot = tables[k].pot
  PROVE  AllPots' = AllPots
<1>1. [k \in Tables |-> tables'[k].pot] = [k \in Tables |-> tables[k].pot]
  OBVIOUS
<1> QED
  BY <1>1 DEF AllPots

\* A player joins a table from their row, or from their request if there is none;
\* none of their threads is under way.
LEMMA FetchFollow ==
  ASSUME IsFiniteSet(Tables), Orderly, ~MayFail, WalletsKept, WalletsHeld, RowsFollow,
         NEW k \in Tables, NEW p \in Ids, Db!Fetch(k, p)
  PROVE  RowsFollow'
<1> DEFINE n == Len(threads)
<1>1. PICK w \in Nat :
        /\ DOMAIN joining'[k] = DOMAIN joining[k] \cup {p}
        /\ joining'[k][p] = [step |-> "upsert", wallet |-> w]
        /\ \A q \in DOMAIN joining[k] : joining'[k][q] = joining[k][q]
        /\ \A j \in Tables : j # k => joining'[j] = joining[j]
        /\ \/ p \in DOMAIN rows /\ w = Db!Fetched(rows[p]) /\ brought' = brought
           \/ p \notin DOMAIN rows /\ brought' = brought + w
        /\ UNCHANGED <<tables, threads, schema, rows>>
  <2>1. schema = "ready"
    BY DEF RowsFollow, OnePlace
  <2>2. PICK w \in Nat :
           /\ p \notin DOMAIN joining[k] /\ ChipsOf(tables[k], joining[k]) + w < WordSize
           /\ DOMAIN joining'[k] = DOMAIN joining[k] \cup {p}
           /\ joining'[k][p] = [step |-> "upsert", wallet |-> w]
           /\ \A q \in DOMAIN joining[k] : joining'[k][q] = joining[k][q]
           /\ IsArrivals(joining'[k]) /\ joining' = [j \in Tables |-> joining'[j]]
           /\ \A j \in Tables : j # k => joining'[j] = joining[j]
           /\ \/ /\ p \in DOMAIN rows /\ w = Db!Fetched(rows[p])
                 /\ brought' = brought /\ held' = held
              \/ /\ p \notin DOMAIN rows \/ schema # "ready" \/ MayFail
                 /\ brought + w < WordSize /\ brought' = brought + w
                 /\ held' = [held EXCEPT ![p] = @ \cup {w}]
           /\ UNCHANGED <<tables, threads, schema, rows, stops>>
    BY FetchFields
  <2> WITNESS w \in Nat
  <2> QED
    BY <2>1, <2>2
<1>2. PICK E : Backs(E)
  BY DEF RowsFollow
<1>3. /\ ~Db!Pending(p)
      /\ \A j \in Tables : p \notin Db!Seated(tables[j]) /\ p \notin DOMAIN joining[j]
  BY DEF Db!Fetch
<1>4. threads \in Seq(ThreadKinds) /\ n \in Nat /\ DOMAIN threads = 1..n /\ brought \in Nat
  BY LenProperties DEF WalletsKept
<1>5. Spares(threads, p)
  BY <1>3, <1>4 DEF Db!Pending, Spares
<1>6. /\ E \in [0..n -> [Ids -> Nat]]
      /\ \A i \in 1..n : E[i] = [E[i-1] EXCEPT ![threads[i].id] = Worth(threads[i])]
  BY <1>2 DEF Backs, Course
<1>7. OnePlace'
  <2>1. \A j \in Tables : DOMAIN joining'[j] \subseteq DOMAIN joining[j] \cup {p}
                          /\ (j # k => DOMAIN joining'[j] = DOMAIN joining[j])
    BY <1>1
  <2>2. schema' = "ready"
    BY <1>1 DEF RowsFollow, OnePlace
  <2>3. ASSUME NEW j \in Tables, NEW q \in DOMAIN joining'[j]
        PROVE  Spares(threads', q) /\ \A i \in Tables : q \notin Db!Seated(tables'[i])
    <3>1. CASE q = p
      BY <1>1, <1>3, <1>5, <3>1
    <3>2. CASE q # p
      BY <1>1, <2>1, <2>3, <3>2 DEF RowsFollow, OnePlace
    <3> QED
      BY <3>1, <3>2
  <2>4. ASSUME NEW i \in Tables, NEW j \in Tables, i # j
        PROVE  /\ DOMAIN joining'[i] \cap DOMAIN joining'[j] = {}
               /\ Db!Seated(tables'[i]) \cap Db!Seated(tables'[j]) = {}
    BY <1>1, <1>3, <2>1, <2>4 DEF RowsFollow, OnePlace
  <2> QED
    BY <2>2, <2>3, <2>4 DEF OnePlace
<1>8. RowsWritten'
  <2>1. /\ tables' = tables /\ threads' = threads /\ rows' = rows
    BY <1>1
  <2>2. ASSUME NEW j \in Tables, NEW q \in DOMAIN joining'[j], joining'[j][q].step = "add"
        PROVE  q \in DOMAIN joining[j] /\ joining'[j][q] = joining[j][q]
    <3>1. ~(j = k /\ q = p)
      BY <1>1, <2>2
    <3> QED
      BY <1>1, <3>1
  <2> QED
    BY <2>1, <2>2 DEF RowsFollow, RowsWritten
<1> DEFINE G == [i \in 0..n |-> [E[i] EXCEPT ![p] = w]]
<1>9. G \in [0..n -> [Ids -> Nat]] /\ \A i \in 0..n : G[i] = [E[i] EXCEPT ![p] = w]
  BY <1>6
<1> HIDE DEF G, n
<1>10. ASSUME NEW i \in 0..n, NEW q \in Ids
       PROVE  G[i][q] = IF q = p THEN w ELSE E[i][q]
  <2>1. E[i] \in [Ids -> Nat]
    BY <1>6
  <2> QED
    BY <1>9, <2>1
<1>11. ASSUME NEW i \in 1..n
       PROVE  G[i] = [G[i-1] EXCEPT ![threads[i].id] = Worth(threads[i])]
  <2>1. i \in 0..n /\ i - 1 \in 0..n /\ threads[i].id # p
    BY <1>4, <1>5 DEF Spares, n
  <2>2. E[i] = [E[i-1] EXCEPT ![threads[i].id] = Worth(threads[i])]
    BY <1>6
  <2>3. E[i-1] \in [Ids -> Nat]
    BY <1>6, <2>1
  <2>4. G[i] = [E[i] EXCEPT ![p] = w] /\ G[i-1] = [E[i-1] EXCEPT ![p] = w]
    BY <1>9, <2>1
  <2> QED
    BY <2>1, <2>2, <2>3, <2>4
<1>12. Course(G, threads)
  BY <1>9, <1>11 DEF Course, n
<1>13. ASSUME NEW i \in 0..n
       PROVE  /\ SumFunctionOnSet(G[i], Ids) <= SumFunctionOnSet(E[i], Ids) + (brought' - brought)
              /\ SumFunctionOnSet(G[i], Ids) \in Nat /\ SumFunctionOnSet(E[i], Ids) \in Nat
  <2>1. \A q \in Ids : E[i][q] \in Nat /\ G[i][q] \in Nat /\ (q # p => G[i][q] = E[i][q])
    BY <1>6, <1>9, <1>10
  <2>2. /\ SumFunctionOnSet(E[i], Ids) \in Nat /\ SumFunctionOnSet(G[i], Ids) \in Nat
        /\ SumFunctionOnSet(G[i], Ids) + E[i][p] = SumFunctionOnSet(E[i], Ids) + G[i][p]
    BY <2>1, SumChange, IdsAssumption
  <2>3. G[i][p] = w /\ E[i][p] \in Nat
    BY <1>10, <2>1
  <2>4. CASE p \in DOMAIN rows /\ w = Db!Fetched(rows[p]) /\ brought' = brought
    <3>1. w = Db!Saved(p)
      BY <2>4 DEF Db!Saved
    <3>2. Db!Saved(p) <= E[0][p] /\ E[i][p] = E[0][p]
      BY <1>2, <1>4, <1>5, CourseSteady DEF Backs, n
    <3> QED
      BY <1>4, <2>2, <2>3, <2>4, <3>1, <3>2
  <2>5. CASE brought' = brought + w
    BY <1>4, <2>2, <2>3, <2>5
  <2> QED
    BY <1>1, <2>2, <2>4, <2>5
<1>14. brought' \in Nat /\ brought' >= brought
  BY <1>1, <1>4
<1>15. AllPots' = AllPots
  BY <1>1, PotsSame
<1>16. ASSUME NEW q \in Ids
       PROVE  Db!Saved(q)' \in Nat /\ Db!Saved(q)' <= G[0][q]
  <2>1. Db!Saved(q)' = Db!Saved(q) /\ Db!Saved(q) \in Nat /\ Db!Saved(q) <= E[0][q]
    BY <1>1, <1>2 DEF Db!Saved, Backs
  <2>2. 0 \in 0..n
    BY <1>4 DEF n
  <2>3. CASE q = p
    <3>1. Db!Saved(p) = w \/ Db!Saved(p) = 0
      BY <1>1 DEF Db!Saved
    <3> QED
      BY <1>10, <2>1, <2>2, <2>3, <3>1
  <2>4. CASE q # p
    BY <1>10, <2>1, <2>2, <2>4
  <2> QED
    BY <2>3, <2>4
<1>17. ASSUME NEW i \in 0..n
       PROVE  SumFunctionOnSet(G[i], Ids) <= brought'
  <2>1. SumFunctionOnSet(E[i], Ids) <= brought
    BY <1>2 DEF Backs, n
  <2> QED
    BY <1>4, <1>13, <1>14, <2>1
<1>18. n \in 0..n /\ n \in Nat
  BY <1>4 DEF n
<1>19. SumFunctionOnSet(G[n], Ids) + AllPots' <= brought'
  <2>1. SumFunctionOnSet(E[n], Ids) + AllPots <= brought
    BY <1>2 DEF Backs, n
  <2>2. AllPots \in Nat
    BY PotsOf
  <2> QED
    BY <1>4, <1>13, <1>14, <1>15, <1>18, <2>1, <2>2
<1>20. ASSUME NEW j \in Tables, NEW q \in Db!Seated(tables[j])
       PROVE  G[n][q] = tables[j].wallet[q]
  <2>1. q # p /\ q \in Ids /\ E[n][q] = tables[j].wallet[q]
    BY <1>2, <1>3 DEF Backs, WalletsKept, IsTable, n
  <2> QED
    BY <1>10, <1>18, <2>1
<1>21. ASSUME NEW j \in Tables, NEW q \in DOMAIN joining'[j], NEW i \in 0..n
       PROVE  G[i][q] = joining'[j][q].wallet
  <2>1. CASE q = p
    <3>1. j = k /\ joining'[j][q].wallet = w
      BY <1>1, <1>3, <2>1
    <3> QED
      BY <1>10, <2>1, <3>1
  <2>2. CASE q # p
    <3>1. q \in DOMAIN joining[j] /\ joining'[j][q] = joining[j][q]
      BY <1>1, <2>2
    <3>2. q \in Ids /\ E[i][q] = joining[j][q].wallet
      BY <1>2, <3>1 DEF Backs, WalletsKept, IsArrivals, n
    <3> QED
      BY <1>10, <2>2, <3>1, <3>2
  <2> QED
    BY <2>1, <2>2
<1>22. PICK H : H = G
  OBVIOUS
<1>23. Backs(H)'
  <2>1. threads' = threads /\ tables' = tables
    BY <1>1
  <2>2. /\ \A i \in 0..Len(threads') : SumFunctionOnSet(H[i], Ids) <= brought'
        /\ SumFunctionOnSet(H[Len(threads')], Ids) + AllPots' <= brought'
    BY <1>17, <1>19, <1>22, <2>1 DEF n
  <2>3. \A j \in Tables : \A q \in Db!Seated(tables'[j]) :
          H[Len(threads')][q] = tables'[j].wallet[q]
    BY <1>20, <1>22, <2>1 DEF n
  <2>4. \A j \in Tables : \A q \in DOMAIN joining'[j] :
          \A i \in 0..Len(threads') : H[i][q] = joining'[j][q].wallet
    BY <1>21, <1>22, <2>1 DEF n
  <2> QED
    BY <1>12, <1>16, <1>22, <2>1, <2>2, <2>3, <2>4 DEF Backs
<1> QED
  BY <1>7, <1>8, <1>23 DEF RowsFollow

\* The wallet that a joining player's row is given is the one they come with.
LEMMA UpsertFollow ==
  ASSUME Orderly, ~MayFail, WalletsKept, WalletsHeld, RowsFollow,
         NEW k \in Tables, NEW p \in Ids, Db!JoinUpsert(k, p)
  PROVE  RowsFollow'
<1> DEFINE w == joining[k][p].wallet
<1>1. /\ p \in DOMAIN joining[k]
      /\ \A j \in Tables : j # k => joining'[j] = joining[j]
      /\ DOMAIN joining'[k] = DOMAIN joining[k]
      /\ joining'[k][p] = [step |-> "add", wallet |-> w]
      /\ \A q \in DOMAIN joining[k] : q # p => joining'[k][q] = joining[k][q]
      /\ UNCHANGED <<tables, threads, schema, brought>>
      /\ \/ rows' = Db!Put(rows, p, Db!Stored(w))
         \/ (schema = "missing" \/ MayFail) /\ rows' = rows
  BY UpsertFields
<1>2. /\ DOMAIN rows' = DOMAIN rows \cup {p} /\ rows'[p] = Db!Stored(w)
      /\ \A q \in DOMAIN rows : q # p => rows'[q] = rows[q]
  <2>1. rows' = Db!Put(rows, p, Db!Stored(w))
    BY <1>1 DEF RowsFollow, OnePlace
  <2> QED
    BY <2>1 DEF Db!Put
<1>3. PICK E : Backs(E)
  BY DEF RowsFollow
<1>4. /\ Spares(threads, p) /\ \A j \in Tables : p \notin Db!Seated(tables[j])
      /\ \A j \in Tables : j # k => p \notin DOMAIN joining[j]
  BY <1>1 DEF RowsFollow, OnePlace
<1>5. Db!Fetched(Db!Stored(w)) = w /\ w \in Nat
  <2>1. w \in 0..(WordSize - 1)
    BY <1>1 DEF WalletsHeld
  <2> QED
    BY <2>1, StoredBack
<1>6. /\ \A j \in Tables : DOMAIN joining'[j] = DOMAIN joining[j]
      /\ \A j \in Tables : \A q \in DOMAIN joining[j] :
           /\ joining'[j][q].wallet = joining[j][q].wallet
           /\ q # p => joining'[j][q] = joining[j][q]
  BY <1>1
<1>7. OnePlace'
  BY <1>1, <1>6 DEF RowsFollow, OnePlace
<1>8. ASSUME NEW q, q # p, NEW wallet, Settles(threads, rows, q, wallet)
      PROVE  Settles(threads', rows', q, wallet)
  BY <1>1, <1>2, <1>8 DEF Settles
<1>9. RowsWritten'
  <2>1. ASSUME NEW j \in Tables, NEW q \in Db!Seated(tables[j])
        PROVE  Settles(threads', rows', q, tables[j].wallet[q])
    BY <1>4, <1>8 DEF RowsFollow, RowsWritten
  <2>2. ASSUME NEW j \in Tables, NEW q \in DOMAIN joining[j], joining'[j][q].step = "add"
        PROVE  Settles(threads', rows', q, joining'[j][q].wallet)
    <3>1. CASE q = p
      <4>1. j = k
        BY <1>4, <2>2, <3>1
      <4> QED
        BY <1>1, <1>2, <1>4, <3>1, <4>1 DEF Settles
    <3>2. CASE q # p
      BY <1>6, <1>8, <2>2, <3>2 DEF RowsFollow, RowsWritten
    <3> QED
      BY <3>1, <3>2
  <2> QED
    BY <1>1, <1>6, <2>1, <2>2 DEF RowsWritten
<1>10. AllPots' = AllPots
  BY <1>1, PotsSame
<1>11. ASSUME NEW q \in Ids
       PROVE  Db!Saved(q)' \in Nat /\ Db!Saved(q)' <= E[0][q]
  <2>1. CASE q = p
    <3>1. Db!Saved(p)' = w
      BY <1>2, <1>5 DEF Db!Saved
    <3>2. 0 \in 0..Len(threads)
      BY LenProperties DEF WalletsKept
    <3>3. E[0][p] = w
      BY <1>1, <1>3, <3>2 DEF Backs
    <3> QED
      BY <1>5, <2>1, <3>1, <3>3
  <2>2. CASE q # p
    <3>1. Db!Saved(q)' = Db!Saved(q)
      BY <1>2, <2>2 DEF Db!Saved
    <3> QED
      BY <1>3, <3>1 DEF Backs
  <2> QED
    BY <2>1, <2>2
<1>12. Backs(E)'
  BY <1>1, <1>3, <1>6, <1>10, <1>11 DEF Backs
<1> QED
  BY <1>7, <1>9, <1>12 DEF RowsFollow

\* The wallet that a player is seated with is in their row.
LEMMA AddFollow ==
  ASSUME WalletsKept, RowsFollow, NEW k \in Tables, NEW p \in Ids, Db!JoinAdd(k, p)
  PROVE  RowsFollow'
<1> DEFINE w == joining[k][p].wallet
<1>1. /\ p \in DOMAIN joining[k] /\ joining[k][p].step = "add"
      /\ \A j \in Tables : j # k => joining'[j] = joining[j]
      /\ DOMAIN joining'[k] = DOMAIN joining[k] \ {p}
      /\ \A q \in DOMAIN joining'[k] : joining'[k][q] = joining[k][q]
      /\ \A j \in Tables : j # k => tables'[j] = tables[j]
      /\ tables'[k].pot = tables[k].pot
      /\ Db!Seated(tables'[k]) = Db!Seated(tables[k]) \cup {p}
      /\ \A q \in Db!Seated(tables[k]) : tables'[k].wallet[q] = tables[k].wallet[q]
      /\ p \notin Db!Seated(tables[k]) => tables'[k].wallet[p] = w
      /\ UNCHANGED <<threads, schema, rows, brought>>
  BY AddFields
<1>2. PICK E : Backs(E)
  BY DEF RowsFollow
<1>3. /\ \A j \in Tables : p \notin Db!Seated(tables[j])
      /\ \A j \in Tables : j # k => p \notin DOMAIN joining[j]
  BY <1>1 DEF RowsFollow, OnePlace
<1>4. \A j \in Tables : \A q \in Db!Seated(tables'[j]) :
        \/ q \in Db!Seated(tables[j]) /\ tables'[j].wallet[q] = tables[j].wallet[q]
        \/ j = k /\ q = p /\ tables'[j].wallet[q] = w
  BY <1>1, <1>3
<1>5. \A j \in Tables : \A q \in DOMAIN joining'[j] :
        q \in DOMAIN joining[j] /\ q # p /\ joining'[j][q] = joining[j][q]
  BY <1>1, <1>3
<1>6. OnePlace'
  <2>1. ASSUME NEW j \in Tables, NEW q \in DOMAIN joining'[j]
        PROVE  Spares(threads', q) /\ \A i \in Tables : q \notin Db!Seated(tables'[i])
    BY <1>1, <1>4, <1>5 DEF RowsFollow, OnePlace
  <2>2. ASSUME NEW i \in Tables, NEW j \in Tables, i # j
        PROVE  /\ DOMAIN joining'[i] \cap DOMAIN joining'[j] = {}
               /\ Db!Seated(tables'[i]) \cap Db!Seated(tables'[j]) = {}
    BY <1>3, <1>4, <1>5, <2>2 DEF RowsFollow, OnePlace
  <2> QED
    BY <1>1, <2>1, <2>2 DEF RowsFollow, OnePlace
<1>7. RowsWritten'
  <2>1. ASSUME NEW j \in Tables, NEW q \in Db!Seated(tables'[j])
        PROVE  Settles(threads, rows, q, tables'[j].wallet[q])
    BY <1>1, <1>4 DEF RowsFollow, RowsWritten
  <2>2. ASSUME NEW j \in Tables, NEW q \in DOMAIN joining'[j], joining'[j][q].step = "add"
        PROVE  Settles(threads, rows, q, joining'[j][q].wallet)
    BY <1>5, <2>2 DEF RowsFollow, RowsWritten
  <2> QED
    BY <1>1, <2>1, <2>2 DEF RowsWritten
<1>8. AllPots' = AllPots
  BY <1>1, PotsSame
<1>9. \A q \in Ids : Db!Saved(q)' = Db!Saved(q)
  BY <1>1 DEF Db!Saved
<1>10. ASSUME NEW j \in Tables, NEW q \in Db!Seated(tables'[j])
       PROVE  E[Len(threads)][q] = tables'[j].wallet[q]
  <2>1. Len(threads) \in 0..Len(threads)
    BY LenProperties DEF WalletsKept
  <2>2. E[Len(threads)][p] = w
    BY <1>1, <1>2, <2>1 DEF Backs
  <2> QED
    BY <1>2, <1>4, <2>2 DEF Backs
<1>11. Backs(E)'
  BY <1>1, <1>2, <1>5, <1>8, <1>9, <1>10 DEF Backs
<1> QED
  BY <1>6, <1>7, <1>11 DEF RowsFollow

\* The first of the threads does to the rows what it was spawned for.
LEMMA RunFollow ==
  ASSUME Orderly, ~MayFail, WalletsKept, WalletsHeld, RowsFollow, Db!Run
  PROVE  RowsFollow'
<1> DEFINE n == Len(threads)
           th == threads[1]
<1>1. threads \in Seq(ThreadKinds) /\ DOMAIN threads = 1..n /\ n \in Nat
  BY LenProperties DEF WalletsKept
<1>2. /\ 1 \in 1..n /\ threads' = Db!RemoveAt(threads, 1)
      /\ Db!RunUpsert(th) \/ Db!RunDelete(th)
      /\ UNCHANGED <<tables, joining, schema, brought>>
  <2>1. schema = "ready"
    BY DEF RowsFollow, OnePlace
  <2> QED
    BY <1>1, <2>1 DEF Db!Run, Db!Fail
<1>3. /\ n >= 1 /\ Len(threads') = n - 1
      /\ \A i \in 1..(n - 1) : threads'[i] = threads[i + 1]
  <2>1. n >= 1
    BY <1>1, <1>2
  <2>2. /\ Len(threads') = n - 1
        /\ \A i \in 1..Len(threads') :
             threads'[i] = IF i < 1 THEN threads[i] ELSE threads[i + 1]
    BY <1>1, <1>2, Taken
  <2>3. \A i \in 1..(n - 1) : ~(i < 1)
    BY <1>1
  <2> QED
    BY <2>1, <2>2, <2>3
<1>4. th \in ThreadKinds /\ th.id \in Ids
      /\ (th.op = "upsert" => th.wallet \in Nat /\ Db!Fetched(Db!Stored(th.wallet)) = th.wallet)
  <2>1. th \in ThreadKinds
    BY <1>1, <1>2, ElementOfSeq
  <2>2. th.id \in Ids
    BY <2>1 DEF ThreadKinds
  <2>3. th.op = "upsert" => th.wallet \in 0..(WordSize - 1)
    BY <1>2, <2>2 DEF WalletsHeld
  <2> QED
    BY <2>1, <2>2, <2>3, StoredBack
<1>5. /\ \A q : q # th.id => /\ q \in DOMAIN rows' <=> q \in DOMAIN rows
                             /\ q \in DOMAIN rows => rows'[q] = rows[q]
      /\ th.op = "upsert" => th.id \in DOMAIN rows' /\ rows'[th.id] = Db!Stored(th.wallet)
      /\ th.op # "upsert" => th.id \notin DOMAIN rows'
  <2>1. CASE Db!RunUpsert(th)
    BY <2>1 DEF Db!RunUpsert, Db!Put
  <2>2. CASE Db!RunDelete(th)
    <3>1. th.op = "delete" /\ rows' = [q \in DOMAIN rows \ {th.id} |-> rows[q]]
      BY <2>2 DEF Db!RunDelete, Db!Cut, Db!Restrict
    <3> QED
      BY <3>1
  <2> QED
    BY <1>2, <2>1, <2>2
<1> HIDE DEF n, th
<1>6. ASSUME NEW q, Spares(threads, q)
      PROVE  Spares(threads', q)
  <2>1. \A i \in 1..n : threads[i].id # q
    BY <1>6 DEF Spares, n
  <2>2. \A i \in 1..(n - 1) : i + 1 \in 1..n
    BY <1>1
  <2> QED
    BY <1>3, <2>1, <2>2 DEF Spares
<1>7. ASSUME NEW q, NEW wallet, Settles(threads, rows, q, wallet)
      PROVE  Settles(threads', rows', q, wallet)
  <2>1. CASE Writes(threads, q, wallet)
    <3>1. PICK i \in 1..n : /\ threads[i] = Db!Upsert(q, wallet)
                            /\ \A j \in 1..n : j > i => threads[j].id # q
      BY <2>1 DEF Writes, n
    <3>2. CASE i = 1
      <4>1. th = Db!Upsert(q, wallet)
        BY <3>1, <3>2 DEF th
      <4>2. q \in DOMAIN rows' /\ rows'[q] = Db!Stored(wallet)
        BY <1>5, <4>1 DEF Db!Upsert
      <4>3. \A j \in 1..(n - 1) : j + 1 \in 1..n /\ j + 1 > 1
        BY <1>1
      <4>4. Spares(threads', q)
        BY <1>3, <3>1, <3>2, <4>3 DEF Spares
      <4> QED
        BY <4>2, <4>4 DEF Settles
    <3>3. CASE i # 1
      <4>1. i - 1 \in 1..(n - 1) /\ threads'[i - 1] = Db!Upsert(q, wallet)
        <5>1. i - 1 \in 1..(n - 1) /\ (i - 1) + 1 = i
          BY <1>1, <3>1, <3>3
        <5> QED
          BY <1>3, <3>1, <5>1
      <4>2. ASSUME NEW j \in 1..(n - 1), j > i - 1
            PROVE  threads'[j].id # q
        <5>1. j + 1 \in 1..n /\ j + 1 > i
          BY <1>1, <3>1, <4>2
        <5> QED
          BY <1>3, <3>1, <5>1
      <4>3. Writes(threads', q, wallet)
        BY <1>3, <4>1, <4>2 DEF Writes
      <4> QED
        BY <4>3 DEF Settles
    <3> QED
      BY <3>2, <3>3
  <2>2. CASE Spares(threads, q) /\ q \in DOMAIN rows /\ rows[q] = Db!Stored(wallet)
    <3>1. q # th.id
      BY <1>2, <2>2 DEF Spares, th, n
    <3> QED
      BY <1>5, <1>6, <2>2, <3>1 DEF Settles
  <2> QED
    BY <1>7, <2>1, <2>2 DEF Settles
<1>8. OnePlace'
  BY <1>2, <1>6 DEF RowsFollow, OnePlace
<1>9. RowsWritten'
  BY <1>2, <1>7 DEF RowsFollow, RowsWritten
<1>10. PICK E : Backs(E)
  BY DEF RowsFollow
<1>11. /\ E \in [0..n -> [Ids -> Nat]]
       /\ \A i \in 1..n : E[i] = [E[i-1] EXCEPT ![threads[i].id] = Worth(threads[i])]
  BY <1>10 DEF Backs, Course, n
<1> DEFINE G == [i \in 0..(n - 1) |-> E[i + 1]]
<1>12. /\ G \in [0..(n - 1) -> [Ids -> Nat]]
       /\ \A i \in 0..(n - 1) : G[i] = E[i + 1] /\ i + 1 \in 0..n
  <2>1. \A i \in 0..(n - 1) : i + 1 \in 0..n
    BY <1>1
  <2> QED
    BY <1>11, <2>1
<1>13. PICK H : H = G
  OBVIOUS
<1> HIDE DEF G
<1>14. Course(H, threads')
  <2>1. ASSUME NEW i \in 1..(n - 1)
        PROVE  H[i] = [H[i-1] EXCEPT ![threads'[i].id] = Worth(threads'[i])]
    <3>1. i \in 0..(n - 1) /\ i - 1 \in 0..(n - 1) /\ (i - 1) + 1 = i /\ i + 1 \in 1..n
          /\ (i + 1) - 1 = i
      BY <1>1
    <3>2. H[i] = E[i + 1] /\ H[i-1] = E[i]
      BY <1>12, <1>13, <3>1
    <3>3. E[i + 1] = [E[i] EXCEPT ![threads[i+1].id] = Worth(threads[i+1])]
      BY <1>11, <3>1
    <3> QED
      BY <1>3, <3>2, <3>3
  <2> QED
    BY <1>3, <1>12, <1>13, <2>1 DEF Course
<1>15. 0 \in 0..(n - 1) /\ n - 1 \in 0..(n - 1) /\ (n - 1) + 1 = n /\ 0 + 1 = 1 /\ 1 - 1 = 0
       /\ 1 \in 1..n /\ 0 \in 0..n
  BY <1>1, <1>3
<1>16. H[0] = E[1] /\ H[n - 1] = E[n]
  BY <1>12, <1>13, <1>15
<1>17. E[1] = [E[0] EXCEPT ![th.id] = Worth(th)] /\ E[0] \in [Ids -> Nat]
  BY <1>11, <1>15 DEF th
<1>18. ASSUME NEW q \in Ids
       PROVE  Db!Saved(q)' \in Nat /\ Db!Saved(q)' <= H[0][q]
  <2>1. CASE q = th.id
    <3>1. H[0][q] = Worth(th)
      BY <1>16, <1>17, <2>1
    <3>2. Db!Saved(q)' = Worth(th) /\ Worth(th) \in Nat
      BY <1>4, <1>5, <2>1 DEF Db!Saved, Worth
    <3> QED
      BY <3>1, <3>2
  <2>2. CASE q # th.id
    <3>1. H[0][q] = E[0][q] /\ Db!Saved(q)' = Db!Saved(q)
      BY <1>5, <1>16, <1>17, <2>2 DEF Db!Saved
    <3> QED
      BY <1>10, <3>1 DEF Backs
  <2> QED
    BY <2>1, <2>2
<1>19. AllPots' = AllPots
  BY <1>2, PotsSame
<1>20. /\ \A i \in 0..(n - 1) : SumFunctionOnSet(H[i], Ids) <= brought
       /\ SumFunctionOnSet(H[n - 1], Ids) + AllPots <= brought
       /\ \A k \in Tables : \A p \in Db!Seated(tables[k]) : H[n - 1][p] = tables[k].wallet[p]
       /\ \A k \in Tables : \A p \in DOMAIN joining[k] :
            \A i \in 0..(n - 1) : H[i][p] = joining[k][p].wallet
  BY <1>10, <1>12, <1>13, <1>16 DEF Backs, n
<1>21. Backs(H)'
  BY <1>2, <1>3, <1>14, <1>18, <1>19, <1>20 DEF Backs
<1> QED
  BY <1>8, <1>9, <1>21 DEF RowsFollow

\* Nobody sits at a table or joins one, and nothing is under way.
Empty ==
  /\ tables = [k \in Tables |-> Db!NewTable] /\ joining = [k \in Tables |-> <<>>]
  /\ threads = <<>> /\ schema = "ready" /\ brought \in Nat
  /\ \E e \in [Ids -> Nat] :
       /\ \A p \in Ids : Db!Saved(p) \in Nat /\ Db!Saved(p) <= e[p]
       /\ SumFunctionOnSet(e, Ids) <= brought

\* Then the rows are all there is.
LEMMA EmptyFollow ==
  ASSUME IsFiniteSet(Tables)
  PROVE  Empty => RowsFollow
<1> SUFFICES ASSUME Empty
             PROVE  RowsFollow
  OBVIOUS
<1>1. PICK e \in [Ids -> Nat] : /\ \A p \in Ids : Db!Saved(p) \in Nat /\ Db!Saved(p) <= e[p]
                                /\ SumFunctionOnSet(e, Ids) <= brought
  BY DEF Empty
<1>2. /\ \A k \in Tables : /\ tables[k].pot = 0 /\ Db!Seated(tables[k]) = {}
                           /\ DOMAIN joining[k] = {}
      /\ Len(threads) = 0
  BY EmptyTable, EmptySeq DEF Empty
<1>3. OnePlace /\ RowsWritten
  BY <1>2 DEF OnePlace, RowsWritten, Empty
<1>4. AllPots = 0
  <2> DEFINE f == [k \in Tables |-> tables[k].pot]
  <2>1. \A k \in Tables : f[k] = 0
    BY <1>2
  <2> HIDE DEF f
  <2>2. SumFunctionOnSet(f, Tables) = 0 * Cardinality(Tables) /\ Cardinality(Tables) \in Nat
    BY <2>1, SumConstant, FS_CardinalityType
  <2>3. AllPots = SumFunctionOnSet(f, Tables)
    BY DEF AllPots, f
  <2> QED
    BY <2>2, <2>3
<1> DEFINE E == [i \in {0} |-> e]
<1>5. 0..0 = {0} /\ 1..0 = {} /\ \A i \in 0..0 : i = 0
  OBVIOUS
<1>6. E[0] = e /\ E \in [0..0 -> [Ids -> Nat]]
  BY <1>5
<1> HIDE DEF E
<1>7. Course(E, threads)
  BY <1>2, <1>5, <1>6 DEF Course
<1>8. SumFunctionOnSet(e, Ids) \in Nat
  BY SumType, IdsAssumption
<1>9. Backs(E)
  <2>1. /\ \A i \in 0..Len(threads) : SumFunctionOnSet(E[i], Ids) <= brought
        /\ SumFunctionOnSet(E[Len(threads)], Ids) + AllPots <= brought
    BY <1>1, <1>2, <1>4, <1>5, <1>6, <1>8
  <2> QED
    BY <1>1, <1>2, <1>6, <1>7, <2>1 DEF Backs
<1> QED
  BY <1>3, <1>9 DEF RowsFollow

\* Every step keeps what the rows follow, or leaves nothing under way.
LEMMA FollowStep ==
  ASSUME IsFiniteSet(Tables), Orderly, ~MayFail, WalletsKept, WalletsHeld, RowsFollow,
         [Db!Next]_(Db!vars)
  PROVE  RowsFollow' \/ Empty'
<1>1. CASE UNCHANGED Db!vars
  <2>1. PICK E : Backs(E)
    BY DEF RowsFollow
  <2>2. Backs(E)'
    BY <1>1, <2>1 DEF Db!vars, Backs, AllPots, Db!Saved
  <2> QED
    BY <1>1, <2>2 DEF Db!vars, RowsFollow, OnePlace, RowsWritten
<1>2. CASE Db!Run
  BY <1>2, RunFollow
<1>3. CASE Db!InitSchema
  BY <1>3 DEF Db!InitSchema, RowsFollow, OnePlace
<1>4. CASE Db!Stop
  <2>1. PICK E : Backs(E)
    BY DEF RowsFollow
  <2>2. 0 \in 0..Len(threads)
    BY LenProperties DEF WalletsKept
  <2>3. /\ E[0] \in [Ids -> Nat] /\ SumFunctionOnSet(E[0], Ids) <= brought
        /\ \A p \in Ids : Db!Saved(p) \in Nat /\ Db!Saved(p) <= E[0][p]
    BY <2>1, <2>2 DEF Backs, Course
  <2>4. \A p \in Ids : Db!Saved(p)' = Db!Saved(p)
    BY <1>4 DEF Db!Stop, Db!Saved
  <2>5. Empty'
    BY <1>4, <2>3, <2>4 DEF Db!Stop, Empty, RowsFollow, OnePlace, WalletsKept
  <2> QED
    BY <2>5
<1>5. ASSUME NEW k \in Tables,
             \/ Db!Start(k) \/ Db!LastRound(k)
             \/ \E p \in Ids : Db!Bet(k, p) \/ Db!FoldHand(k, p) \/ Db!Leave(k, p)
      PROVE  RowsFollow'
  <2>1. IsTable(tables[k])
    BY DEF WalletsKept
  <2>2. PICK u, new : IsCalled(k, u, new)
    BY <1>5, <2>1, TableCalled, StartCalled, LastRoundCalled
  <2>3. WalletsKept'
    BY <2>2, CalledKept
  <2>4. PICK E : Backs(E)
    BY DEF RowsFollow
  <2>5. \E G : Backs(G)'
    BY <2>2, <2>3, <2>4, CalledBacks DEF RowsFollow
  <2>6. OnePlace' /\ RowsWritten'
    BY <2>2, CalledWritten DEF RowsFollow
  <2> QED
    BY <2>5, <2>6 DEF RowsFollow
<1>6. ASSUME NEW k \in Tables, NEW p \in Ids,
             Db!Fetch(k, p) \/ Db!JoinUpsert(k, p) \/ Db!JoinAdd(k, p)
      PROVE  RowsFollow'
  BY <1>6, FetchFollow, UpsertFollow, AddFollow
<1> QED
  BY <1>1, <1>2, <1>3, <1>4, <1>5, <1>6 DEF Db!Next

\* What follows at every moment: at the start of the course the rows are worth no
\* more than was brought, and at its end they are the wallets at the tables.
LEMMA FollowResult ==
  ASSUME WalletsKept, WalletsHeld, RowsFollow
  PROVE  Db!NoChipsMinted /\ Db!Settled
<1>1. PICK E : Backs(E)
  BY DEF RowsFollow
<1>2. 0 \in 0..Len(threads)
  BY LenProperties DEF WalletsKept
<1>3. Db!NoChipsMinted
  <2> DEFINE f == [p \in Ids |-> Db!Saved(p)]
             g == E[0]
  <2>1. /\ g \in [Ids -> Nat] /\ SumFunctionOnSet(g, Ids) <= brought
        /\ \A p \in Ids : f[p] \in Nat /\ f[p] <= g[p]
    BY <1>1, <1>2 DEF Backs, Course
  <2> HIDE DEF f, g
  <2>2. SumFunctionOnSet(f, Ids) <= SumFunctionOnSet(g, Ids)
    BY <2>1, SumMonotone, IdsAssumption
  <2>3. SumFunctionOnSet(f, Ids) \in Nat /\ SumFunctionOnSet(g, Ids) \in Nat /\ brought \in Nat
    BY <2>1, SumType, IdsAssumption DEF WalletsKept
  <2>4. SumFunctionOnSet(f, Ids) <= brought
    BY <2>1, <2>2, <2>3
  <2> QED
    BY <2>4, SameSum DEF Db!NoChipsMinted, f
<1>4. Db!Settled
  <2> SUFFICES ASSUME threads = <<>>, NEW k \in Tables, NEW p \in Db!Seated(tables[k])
               PROVE  p \in DOMAIN rows /\ Db!Fetched(rows[p]) = tables[k].wallet[p]
    BY DEF Db!Settled
  <2>1. Len(threads) = 0 /\ 1..0 = {}
    BY EmptySeq
  <2>2. p \in DOMAIN rows /\ rows[p] = Db!Stored(tables[k].wallet[p])
    BY <2>1 DEF RowsFollow, RowsWritten, Settles, Writes
  <2>3. tables[k].wallet[p] \in 0..(WordSize - 1)
    <3>1. p \in Ids
      BY DEF WalletsKept, IsTable
    <3> QED
      BY <3>1 DEF WalletsHeld
  <2> QED
    BY <2>2, <2>3, StoredBack
<1> QED
  BY <1>3, <1>4

\* If the threads run in order and nothing fails, the rows never hold more chips
\* than players brought, wherever a stop of the server cuts the writes, and once
\* the threads have run the row of everybody at a table holds their wallet
\* (lib.rs:231, lib.rs:515): for any finite set of tables, players and wallets.
THEOREM RowsFollowInOrder ==
  ASSUME IsFiniteSet(Tables)
  PROVE  Db!Spec => [](Db!NoChipsMinted /\ Db!Settled)
<1>1. CASE Orderly /\ ~MayFail
  <2> DEFINE Kept == WalletsKept /\ WalletsHeld
  <2>1. Db!Init => Kept
    BY WalletsStart
  <2>2. Db!Init => Empty
    <3> SUFFICES ASSUME Db!Init
                 PROVE  Empty
      OBVIOUS
    <3> DEFINE e == [p \in Ids |-> 0]
    <3>1. e \in [Ids -> Nat] /\ \A p \in Ids : e[p] = 0
      OBVIOUS
    <3>2. \A p \in Ids : Db!Saved(p) = 0
      BY DEF Db!Init, Db!Saved
    <3> HIDE DEF e
    <3>3. SumFunctionOnSet(e, Ids) = 0
      BY <3>1, SumConstant, FS_CardinalityType, IdsAssumption
    <3> QED
      BY <1>1, <3>1, <3>2, <3>3 DEF Db!Init, Empty
  <2>3. Empty => RowsFollow
    BY EmptyFollow
  <2>4. Kept /\ [Db!Next]_(Db!vars) => Kept'
    BY WalletsStep
  <2>5. Kept /\ RowsFollow /\ [Db!Next]_(Db!vars) => RowsFollow' \/ Empty'
    BY <1>1, FollowStep
  <2>6. Kept /\ RowsFollow => Db!NoChipsMinted /\ Db!Settled
    BY FollowResult
  <2> QED
    BY <2>1, <2>2, <2>3, <2>4, <2>5, <2>6, PTL DEF Db!Spec
<1>2. CASE ~(Orderly /\ ~MayFail)
  <2>1. Db!NoChipsMinted /\ Db!Settled
    BY <1>2 DEF Db!NoChipsMinted, Db!Settled
  <2> QED
    BY <2>1, PTL
<1> QED
  BY <1>1, <1>2


-----------------------------------------------------------------------------
(* Of SidePots: the levels of the bets, and the chips they are made of.     *)

\* The players whose c-th chip is in the pot, the level below a level, and the
\* chips that a level is about.
Bettors(t, c) == {p \in t.players : t.pbet[p] >= c}

Below(t, level) == Max({0} \cup {l \in Levels(t) : l < level})

Span(t, level) == (Below(t, level) + 1)..level

Spans(t, levels) == UNION {Span(t, l) : l \in levels}

LEMMA BelowType ==
  ASSUME NEW t \in TableType, NEW level \in Levels(t)
  PROVE  /\ Below(t, level) \in Nat /\ Below(t, level) < level /\ level \in Nat \ {0}
         /\ Below(t, level) # 0 => Below(t, level) \in Levels(t)
         /\ \A l \in Levels(t) : l < level => l <= Below(t, level)
<1> DEFINE lower == {0} \cup {l \in Levels(t) : l < level}
<1>1. Levels(t) \subseteq Nat /\ 0 \notin Levels(t)
  BY LevelsFinite DEF Levels
<1>2. Below(t, level) \in lower /\ \A l \in lower : l <= Below(t, level)
  BY <1>1, LevelBelow DEF Below
<1> QED
  BY <1>1, <1>2

\* Between a level and the one below it everybody bet as much as at the level.
LEMMA SpanBettors ==
  ASSUME NEW t \in TableType, NEW level \in Levels(t), NEW c \in Span(t, level)
  PROVE  c \in Nat \ {0} /\ c <= level /\ Bettors(t, c) = Bettors(t, level)
<1>1. /\ c \in Int /\ Below(t, level) + 1 <= c /\ c <= level
      /\ Below(t, level) \in Nat /\ level \in Nat
  BY BelowType DEF Span
<1>2. c \in Nat \ {0}
  BY <1>1
<1>3. \A p \in t.players : t.pbet[p] \in Nat
  BY DEF TableType
<1>4. ASSUME NEW p \in t.players, t.pbet[p] >= c
      PROVE  t.pbet[p] >= level
  <2>1. t.pbet[p] \in Levels(t)
    BY <1>2, <1>3, <1>4 DEF Levels
  <2>2. t.pbet[p] < level => t.pbet[p] <= Below(t, level)
    BY <2>1, BelowType
  <2> QED
    BY <1>1, <1>3, <1>4, <2>2
<1>5. ASSUME NEW p \in t.players, t.pbet[p] >= level
      PROVE  t.pbet[p] >= c
  BY <1>1, <1>3, <1>5
<1> QED
  BY <1>1, <1>2, <1>4, <1>5 DEF Bettors

\* Every chip that somebody bet is of one level.
LEMMA SpanExists ==
  ASSUME NEW t \in TableType, NEW c \in Nat \ {0}, Bettors(t, c) # {}
  PROVE  \E level \in Levels(t) : c \in Span(t, level)
<1> DEFINE higher == {l \in Levels(t) : l >= c}
<1>1. higher \subseteq Nat
  BY LevelsFinite
<1>2. higher # {}
  <2>1. PICK p \in t.players : t.pbet[p] >= c
    BY DEF Bettors
  <2>2. t.pbet[p] \in Levels(t)
    BY <2>1 DEF Levels, TableType
  <2> QED
    BY <2>1, <2>2
<1>3. PICK level \in higher : \A l \in higher : level <= l
  <2> HIDE DEF higher
  <2> QED
    BY <1>1, <1>2, Least
<1>4. level \in Levels(t) /\ level \in Nat /\ level >= c
  BY <1>1, <1>3
<1>5. Below(t, level) < c /\ Below(t, level) \in Nat
  <2>1. /\ Below(t, level) \in Nat /\ Below(t, level) < level
        /\ Below(t, level) # 0 => Below(t, level) \in Levels(t)
    BY <1>4, BelowType
  <2>2. Below(t, level) \in Levels(t) => Below(t, level) < c
    BY <1>3, <1>4, <2>1
  <2> QED
    BY <2>1, <2>2
<1> QED
  BY <1>4, <1>5 DEF Span

LEMMA SpansApart ==
  ASSUME NEW t \in TableType, NEW k \in Levels(t), NEW l \in Levels(t), k # l
  PROVE  Span(t, k) \cap Span(t, l) = {}
<1>1. ASSUME NEW m \in Levels(t), NEW n \in Levels(t), m < n
      PROVE  Span(t, m) \cap Span(t, n) = {}
  <2>1. /\ m \in Nat /\ n \in Nat /\ Below(t, m) \in Nat /\ Below(t, n) \in Nat
        /\ m <= Below(t, n)
    BY <1>1, BelowType
  <2> QED
    BY <2>1 DEF Span
<1>2. k \in Nat /\ l \in Nat
  BY BelowType
<1>3. k < l \/ l < k
  BY <1>2
<1> QED
  BY <1>1, <1>3

\* The pots of some levels are the chips these levels are about, one by one.
LEMMA PotsAreChips ==
  ASSUME NEW t \in TableType, NEW levels \in SUBSET Levels(t),
         NEW f, \A c \in Spans(t, levels) : f[c] = Cardinality(Bettors(t, c))
  PROVE  /\ IsFiniteSet(Spans(t, levels))
         /\ \A c \in Spans(t, levels) : f[c] \in Nat
         /\ Pots(t, levels) = SumFunctionOnSet(f, Spans(t, levels))
<1> DEFINE part == [l \in levels |-> Span(t, l)]
           h    == [l \in Levels(t) |-> LevelPot(t, l)]
<1>1. IsFiniteSet(levels) /\ \A l \in levels : l \in Levels(t)
  BY LevelsFinite
<1>2. \A l \in levels : IsFiniteSet(Span(t, l))
  <2> SUFFICES ASSUME NEW l \in levels PROVE IsFiniteSet(Span(t, l))
    OBVIOUS
  <2>1. Below(t, l) + 1 \in Int /\ l \in Int
    BY BelowType
  <2> QED
    BY <2>1, FS_Interval DEF Span
<1>3. IsFiniteSet(Spans(t, levels))
  <2> DEFINE F == {Span(t, l) : l \in levels}
  <2>1. [l \in levels |-> Span(t, l)] \in Surjection(levels, F)
    BY DEF Surjection
  <2>2. IsFiniteSet(F)
    BY <1>1, <2>1, FS_Surjection
  <2>3. \A S \in F : IsFiniteSet(S)
    BY <1>2
  <2> HIDE DEF F
  <2>4. IsFiniteSet(UNION F)
    BY <2>2, <2>3, FS_UNION
  <2> QED
    BY <2>4 DEF Spans, F
<1>4. \A c \in Spans(t, levels) : f[c] \in Nat
  <2>1. \A c : Bettors(t, c) \in SUBSET Ids
    BY ContendersSubset DEF Bettors
  <2>2. \A c : Cardinality(Bettors(t, c)) \in Nat
    BY <2>1, ContendersSubset
  <2> QED
    BY <2>2
<1>5. \A l \in levels : part[l] \in SUBSET Spans(t, levels)
  BY DEF Spans
<1>6. ASSUME NEW l \in levels
      PROVE  h[l] = SumFunctionOnSet(f, part[l])
  <2> DEFINE n == Cardinality(Bettors(t, l))
  <2>1. n \in Nat
    <3>1. Bettors(t, l) \in SUBSET Ids
      BY ContendersSubset DEF Bettors
    <3> QED
      BY <3>1, ContendersSubset
  <2>2. \A c \in Span(t, l) : f[c] = n
    BY <1>1, <1>5, SpanBettors
  <2>3. /\ Below(t, l) \in Nat /\ l \in Nat /\ Below(t, l) < l
    BY <1>1, BelowType
  <2>4. Cardinality(Span(t, l)) = l - Below(t, l)
    <3>1. Below(t, l) + 1 \in Int /\ l \in Int /\ ~(Below(t, l) + 1 > l)
      BY <2>3
    <3>2. Cardinality((Below(t, l) + 1)..l) = l - (Below(t, l) + 1) + 1
      BY <3>1, FS_Interval
    <3> QED
      BY <2>3, <3>2 DEF Span
  <2>5. SumFunctionOnSet(f, Span(t, l)) = n * Cardinality(Span(t, l))
    <3> HIDE DEF n
    <3> QED
      BY <1>2, <2>1, <2>2, SumConstant
  <2>6. LevelPot(t, l) = (l - Below(t, l)) * n
    BY DEF LevelPot, Below, Bettors
  <2>7. h[l] = LevelPot(t, l) /\ part[l] = Span(t, l)
    BY <1>1
  <2> HIDE DEF n, h, part
  <2>8. (l - Below(t, l)) * n = n * (l - Below(t, l))
    BY <2>1, <2>3
  <2> QED
    BY <2>4, <2>5, <2>6, <2>7, <2>8
<1>7. \A k, l \in levels : k # l => part[k] \cap part[l] = {}
  BY <1>1, SpansApart
<1>8. \A c \in Spans(t, levels) : \E l \in levels : c \in part[l]
  BY DEF Spans
<1> HIDE DEF part, h
<1>9. SumFunctionOnSet(h, levels) = SumFunctionOnSet(f, Spans(t, levels))
  BY <1>1, <1>3, <1>4, <1>5, <1>6, <1>7, <1>8, SumParts
<1> QED
  BY <1>3, <1>4, <1>9 DEF Pots, h

\* Hands differ, so of those who hold cards the best one is the only one.
LEMMA StrengthsDiffer ==
  ASSUME NEW t, NEW C \in SUBSET Ids, NEW rank \in Ranks[C], NEW p \in C, NEW q \in C, p # q
  PROVE  /\ Strength(t, rank, p) \in Int /\ Strength(t, rank, q) \in Int
         /\ Strength(t, rank, p) # Strength(t, rank, q)
<1>1. /\ Cardinality(C) \in Nat /\ Cardinality(Ids) \in Nat /\ Cardinality(C) <= Cardinality(Ids)
      /\ rank \in [C -> 1..Cardinality(C)]
  BY RankType, IdsAssumption, FS_Subset, FS_CardinalityType
<1>2. rank[p] # rank[q]
  <2>1. rank \in Bijection(C, 1..Cardinality(C))
    BY DEF Ranks
  <2> QED
    BY <2>1 DEF Bijection, Injection, IsInjective
<1>3. rank[p] \in 1..Cardinality(C) /\ rank[q] \in 1..Cardinality(C)
  BY <1>1
<1> QED
  BY <1>1, <1>2, <1>3 DEF Strength

LEMMA BestIs ==
  ASSUME NEW t, NEW C \in SUBSET Ids, NEW rank \in Ranks[C], NEW S \in SUBSET C, NEW p \in Ids
  PROVE  Best(t, rank, S) = p
           <=> p \in S /\ \A q \in S : Strength(t, rank, q) <= Strength(t, rank, p)
<1> DEFINE Tops(r) == \A q \in S : Strength(t, rank, q) <= Strength(t, rank, r)
<1>1. ASSUME NEW r \in S, NEW s \in S, Tops(r), Tops(s)
      PROVE  r = s
  <2>1. Strength(t, rank, r) <= Strength(t, rank, s) /\ Strength(t, rank, s) <= Strength(t, rank, r)
    BY <1>1
  <2>2. r # s => /\ Strength(t, rank, r) \in Int /\ Strength(t, rank, s) \in Int
                 /\ Strength(t, rank, r) # Strength(t, rank, s)
    BY StrengthsDiffer
  <2> QED
    BY <2>1, <2>2
<1> HIDE DEF Tops
<1>2. Best(t, rank, S) = IF \E r \in S : Tops(r) THEN CHOOSE r \in S : Tops(r) ELSE None
  BY Zenon DEF Best, Tops
<1>3. p # None
  BY IdsAssumption
<1>4. Best(t, rank, S) = p <=> p \in S /\ Tops(p)
  BY <1>1, <1>2, <1>3
<1> QED
  BY <1>4 DEF Tops

-----------------------------------------------------------------------------
(* Of SidePots: what the levels pay is what the rule pays.                  *)

\* Of SidePots: the bounds on bets.  Its table is that of Table, in other states.
CONSTANTS MaxBet, MaxDead

\* Of SidePots: the ranking that decided the showdown.
VARIABLE strength

Rule == INSTANCE SidePots

\* The operators of the instance are those of TableOps.
LEMMA RuleReadings ==
  /\ Rule!NewTable = NewTable /\ Rule!Ranks = Ranks /\ Rule!Orders = Orders
  /\ Rule!EndRound = EndRound
  /\ \A S : Rule!Cardinality(S) = Cardinality(S)
  /\ \A f, S : Rule!SumFunctionOnSet(f, S) = SumFunctionOnSet(f, S)
  /\ \A t : /\ Rule!IsRunning(t) = IsRunning(t) /\ Rule!Contenders(t) = Contenders(t)
            /\ Rule!Bets(t) = Bets(t)
  /\ \A t, rank, p : Rule!Strength(t, rank, p) = Strength(t, rank, p)
<1>1. /\ Rule!NewTable = NewTable /\ Rule!EndRound = EndRound
      /\ \A S : Rule!Cardinality(S) = Cardinality(S)
  BY DEF Rule!NewTable, NewTable, Rule!EndRound, EndRound, Rule!Cardinality, Cardinality
<1>2. Rule!Ranks = Ranks /\ Rule!Orders = Orders
  BY DEF Rule!Ranks, Ranks, Rule!Orders, Orders, Rule!Bijection, Bijection, Rule!Injection,
         Injection, Rule!Surjection, Surjection, Rule!IsInjective, IsInjective,
         Rule!Cardinality, Cardinality
<1>3. \A f, S : Rule!SumFunctionOnSet(f, S) = SumFunctionOnSet(f, S)
  BY DEF Rule!SumFunctionOnSet, SumFunctionOnSet, Rule!FoldFunctionOnSet, FoldFunctionOnSet,
         Rule!MapThenFoldSet, MapThenFoldSet
<1>4. \A t : /\ Rule!IsRunning(t) = IsRunning(t) /\ Rule!Contenders(t) = Contenders(t)
             /\ Rule!Bets(t) = Bets(t)
  BY <1>3 DEF Rule!IsRunning, IsRunning, Rule!Contenders, Contenders, Rule!Bets, Bets
<1>5. \A t, rank, p : Rule!Strength(t, rank, p) = Strength(t, rank, p)
  BY DEF Rule!Strength, Strength, Rule!HasCards, HasCards, Rule!Cardinality, Cardinality
<1> QED
  BY <1>1, <1>2, <1>3, <1>4, <1>5

LEMMA RuleEndGame ==
  ASSUME NEW t, NEW rank
  PROVE  Rule!EndGame(t, rank) = EndGame(t, rank)
<1>1. Rule!PayShowdownPots(t, rank) = PayShowdownPots(t, rank)
  BY DEF Rule!PayShowdownPots, PayShowdownPots, Rule!Pots, Pots, Rule!LevelPot, LevelPot,
         Rule!Levels, Levels, Rule!LevelsWon, LevelsWon, Rule!LevelWinner, LevelWinner,
         Rule!Best, Best, Rule!Strength, Strength, Rule!HasCards, HasCards,
         Rule!Contenders, Contenders, Rule!Cardinality, Cardinality, Rule!Max, Max,
         Rule!SumFunctionOnSet, SumFunctionOnSet, Rule!FoldFunctionOnSet, FoldFunctionOnSet,
         Rule!MapThenFoldSet, MapThenFoldSet
<1>2. Rule!Best(t, rank, Rule!Contenders(t)) = Best(t, rank, Contenders(t))
  BY DEF Rule!Best, Best, Rule!Strength, Strength, Rule!HasCards, HasCards,
         Rule!Cardinality, Cardinality, Rule!Contenders, Contenders
<1> QED
  BY <1>1, <1>2 DEF Rule!EndGame, EndGame, Rule!ClearHand, ClearHand

LEMMA RuleRebuild == \A t, order : Rule!Rebuild(t, order) = Rebuild(t, order)
BY DEF Rule!Rebuild, Rebuild, Rule!Cardinality, Cardinality

\* A showdown is of a table whose bets are in the pot, with somebody to pay.
AtShowdown ==
  IsRunning(table) =>
    /\ table \in TableType /\ table.players = Ids
    /\ \A p \in Ids : table.pbet[p] <= MaxBet
    /\ Bets(table) <= table.pot /\ Contenders(table) # {}

\* The chips of the levels that p wins, or that nobody wins.
LEMMA LayersWon ==
  ASSUME MaxBet \in Nat, IsRunning(table), AtShowdown,
         NEW rank \in Ranks[Contenders(table)],
         strength' = [p \in Contenders(table) |-> Strength(table, rank, p)],
         NEW p \in Ids, NEW c \in 1..MaxBet
  PROVE  Rule!WinsLayer(p, c) <=> c \in Spans(table, LevelsWon(table, rank, p))
<1> DEFINE S == {q \in Contenders(table) : table.pbet[q] >= c}
<1>1. /\ table \in TableType /\ table.players = Ids /\ c \in Nat \ {0}
      /\ Contenders(table) \in SUBSET Ids
  BY ContendersSubset DEF AtShowdown
<1>2. Contenders(table) \cap Rule!Layer(c) = S
  BY <1>1 DEF Rule!Layer, Contenders
<1>3. Rule!WinsLayer(p, c) <=> Best(table, rank, S) = p
  <2>1. Rule!WinsLayer(p, c) <=> p \in S /\ \A q \in S : strength'[q] <= strength'[p]
    BY <1>2, RuleReadings DEF Rule!WinsLayer
  <2>2. \A q \in S : strength'[q] = Strength(table, rank, q)
    OBVIOUS
  <2>3. S \in SUBSET Contenders(table)
    OBVIOUS
  <2> HIDE DEF S
  <2> QED
    BY <1>1, <2>1, <2>2, <2>3, BestIs
<1>4. \A l \in Levels(table) : c \in Span(table, l) => LevelWinner(table, rank, l) = Best(table, rank, S)
  <2> SUFFICES ASSUME NEW l \in Levels(table), c \in Span(table, l)
               PROVE  LevelWinner(table, rank, l) = Best(table, rank, S)
    OBVIOUS
  <2>1. Bettors(table, c) = Bettors(table, l)
    BY <1>1, SpanBettors
  <2>2. S = {q \in Contenders(table) : table.pbet[q] >= l}
    BY <1>1, <2>1 DEF Bettors, Contenders
  <2> QED
    BY <2>2 DEF LevelWinner
<1>5. ASSUME c \in Spans(table, LevelsWon(table, rank, p))
      PROVE  Best(table, rank, S) = p
  BY <1>4, <1>5 DEF Spans, LevelsWon
<1>6. ASSUME Best(table, rank, S) = p
      PROVE  c \in Spans(table, LevelsWon(table, rank, p))
  <2>1. p \in S
    <3>1. S \in SUBSET Contenders(table)
      OBVIOUS
    <3> HIDE DEF S
    <3> QED
      BY <1>1, <1>6, <3>1, BestIs
  <2>2. Bettors(table, c) # {}
    BY <1>1, <2>1 DEF Bettors
  <2>3. PICK l \in Levels(table) : c \in Span(table, l)
    BY <1>1, <2>2, SpanExists
  <2>4. l \in LevelsWon(table, rank, p)
    BY <1>4, <1>6, <2>3 DEF LevelsWon
  <2> QED
    BY <2>3, <2>4 DEF Spans
<1> QED
  BY <1>3, <1>5, <1>6

\* What no level pays is what no layer pays, and the layers above all bets are empty.
LEMMA LayersLost ==
  ASSUME MaxBet \in Nat, IsRunning(table), AtShowdown,
         NEW rank \in Ranks[Contenders(table)],
         strength' = [p \in Contenders(table) |-> Strength(table, rank, p)]
  PROVE  Rule!LayerChips(Rule!Unclaimed) = Pots(table, LevelsWon(table, rank, None))
<1> DEFINE f    == [c \in 1..MaxBet |-> Cardinality(Rule!Layer(c))]
           lost == LevelsWon(table, rank, None)
           open == Rule!Unclaimed
<1>1. /\ table \in TableType /\ table.players = Ids /\ lost \in SUBSET Levels(table)
      /\ \A p \in Ids : table.pbet[p] \in Nat /\ table.pbet[p] <= MaxBet
  BY DEF AtShowdown, LevelsWon, TableType
<1>2. \A c : Rule!Layer(c) = Bettors(table, c) /\ Bettors(table, c) \in SUBSET Ids
  BY <1>1 DEF Rule!Layer, Bettors
<1>3. \A l \in Levels(table) : l \in Nat /\ l <= MaxBet
  BY <1>1, LevelsFinite DEF Levels
<1>4. \A l \in Levels(table) : LevelWinner(table, rank, l) \in Ids \cup {None}
  <2> SUFFICES ASSUME NEW l \in Levels(table)
               PROVE  LevelWinner(table, rank, l) \in Ids \cup {None}
    OBVIOUS
  <2> DEFINE S == {q \in Contenders(table) : table.pbet[q] >= l}
  <2>1. S \in SUBSET Contenders(table) /\ Contenders(table) \in SUBSET Ids
    BY <1>1, ContendersSubset
  <2> HIDE DEF S
  <2>2. Best(table, rank, S) \in S \cup {None}
    BY <2>1, BestChosen
  <2> QED
    BY <2>1, <2>2 DEF LevelWinner, S
<1>5. Spans(table, lost) \in SUBSET open
  <2> SUFFICES ASSUME NEW l \in lost, NEW c \in Span(table, l) PROVE c \in open
    BY DEF Spans
  <2>1. l \in Levels(table) /\ LevelWinner(table, rank, l) = None
    BY DEF LevelsWon
  <2>2. c \in 1..MaxBet
    <3>1. c \in Nat \ {0} /\ c <= l
      BY <1>1, <2>1, SpanBettors
    <3> QED
      BY <1>3, <2>1, <3>1
  <2>3. ASSUME NEW p \in Ids, Rule!WinsLayer(p, c) PROVE FALSE
    <3>1. c \in Spans(table, LevelsWon(table, rank, p))
      BY <2>2, <2>3, LayersWon
    <3>2. PICK k \in LevelsWon(table, rank, p) : c \in Span(table, k)
      BY <3>1 DEF Spans
    <3>3. k \in Levels(table) /\ LevelWinner(table, rank, k) = p
      BY <3>2 DEF LevelsWon
    <3>4. k = l
      BY <1>1, <2>1, <3>2, <3>3, SpansApart
    <3> QED
      BY <2>1, <3>3, <3>4, IdsAssumption
  <2> QED
    BY <2>2, <2>3 DEF Rule!Unclaimed
<1>6. \A c \in open \ Spans(table, lost) : Bettors(table, c) = {}
  <2> SUFFICES ASSUME NEW c \in open, c \notin Spans(table, lost), Bettors(table, c) # {}
               PROVE  FALSE
    OBVIOUS
  <2>1. c \in 1..MaxBet /\ c \in Nat \ {0} /\ \A p \in Ids : ~Rule!WinsLayer(p, c)
    BY DEF Rule!Unclaimed
  <2>2. PICK l \in Levels(table) : c \in Span(table, l)
    BY <1>1, <2>1, SpanExists
  <2>3. LevelWinner(table, rank, l) # None
    BY <2>2 DEF Spans, LevelsWon
  <2>4. PICK p \in Ids : LevelWinner(table, rank, l) = p
    BY <1>4, <2>3
  <2>5. c \in Spans(table, LevelsWon(table, rank, p))
    BY <2>2, <2>4 DEF Spans, LevelsWon
  <2> QED
    BY <2>1, <2>4, <2>5, LayersWon
<1>7. IsFiniteSet(open) /\ open \in SUBSET (1..MaxBet)
  <2>1. open \in SUBSET (1..MaxBet)
    BY DEF Rule!Unclaimed
  <2>2. IsFiniteSet(1..MaxBet)
    BY FS_Interval
  <2> HIDE DEF open
  <2> QED
    BY <2>1, <2>2, FS_Subset
<1>8. \A c \in open : f[c] = Cardinality(Bettors(table, c)) /\ f[c] \in Nat
  <2>1. \A c : Cardinality(Bettors(table, c)) \in Nat
    BY <1>1, <1>2, ContendersSubset
  <2> HIDE DEF open
  <2> QED
    BY <1>2, <1>7, <2>1
<1>9. Rule!LayerChips(open) = SumFunctionOnSet(f, open)
  BY RuleReadings DEF Rule!LayerChips
<1> HIDE DEF open, lost, f
<1>10. SumFunctionOnSet(f, open) = SumFunctionOnSet(f, Spans(table, lost))
                                  + SumFunctionOnSet(f, open \ Spans(table, lost))
  BY <1>5, <1>7, <1>8, SumUnion
<1>11. SumFunctionOnSet(f, open \ Spans(table, lost)) = 0
  <2>1. \A c \in open \ Spans(table, lost) : f[c] = 0
    BY <1>6, <1>8, FS_EmptySet
  <2>2. IsFiniteSet(open \ Spans(table, lost))
    BY <1>7, FS_Subset
  <2>3. Cardinality(open \ Spans(table, lost)) \in Nat
    BY <2>2, FS_CardinalityType
  <2>4. SumFunctionOnSet(f, open \ Spans(table, lost))
          = 0 * Cardinality(open \ Spans(table, lost))
    BY <2>1, <2>2, SumConstant
  <2> QED
    BY <2>3, <2>4
<1>12. Pots(table, lost) = SumFunctionOnSet(f, Spans(table, lost)) /\ Pots(table, lost) \in Nat
  <2>1. \A c \in Spans(table, lost) : f[c] = Cardinality(Bettors(table, c))
    BY <1>5, <1>8
  <2> QED
    BY <1>1, <2>1, PotsAreChips, PotsType
<1> QED
  BY <1>9, <1>10, <1>11, <1>12 DEF open, lost

\* Every table that LastRound makes has somebody to pay, and all bets in the pot.
LEMMA InitAtShowdown ==
  ASSUME MaxBet \in Nat, MaxDead \in Nat, Rule!Init
  PROVE  AtShowdown
<1>1. PICK bets \in [Ids -> 0..MaxBet], live \in SUBSET Ids, joined \in SUBSET Ids,
           dead \in 0..MaxDead :
        live # {} /\ table = Rule!LastRound(bets, live, joined, dead)
  BY DEF Rule!Init
<1> DEFINE order == CHOOSE o \in Orders[live] : TRUE
           seated == [NewTable EXCEPT !.players = live]
           ring == Rebuild(seated, order)
           t == [NewTable EXCEPT !.players = Ids,
                                 !.pbet    = bets,
                                 !.folded  = [p \in Ids |-> p \notin live \cup joined],
                                 !.next    = ring.nextf,
                                 !.prev    = ring.prevf,
                                 !.turn    = order[1],
                                 !.clock   = "fresh",
                                 !.round   = EndRound - 1]
<1>2. table = [t EXCEPT !.pot = Bets(t) + dead]
  BY <1>1, RuleReadings, RuleRebuild DEF Rule!LastRound
<1>3. bets \in [Ids -> Nat] /\ \A p \in Ids : bets[p] <= MaxBet /\ dead \in Nat
  BY <1>1
<1>4. order \in Orders[live]
  <2>1. IsFiniteSet(live)
    BY ContendersSubset, NewTableType
  <2>2. ExistsBijection(1..Cardinality(live), live)
    BY <2>1, FS_CardinalityType
  <2> QED
    BY <2>2 DEF ExistsBijection, Orders
<1>5. order[1] \in Ids
  <2> HIDE DEF order
  <2>1. Cardinality(live) \in Nat /\ Cardinality(live) # 0 /\ order \in [1..Cardinality(live) -> live]
    BY <1>1, <1>4, OrderType
  <2>2. 1 \in 1..Cardinality(live)
    BY <2>1
  <2> QED
    BY <2>1, <2>2
<1>6. ring \in TableType
  <2>1. seated \in TableType /\ seated.players = live
    BY NewTableType DEF NewTable, TableType
  <2> HIDE DEF order, seated
  <2> QED
    BY <1>4, <2>1, RebuildType
<1> HIDE DEF ring, order
<1>7. ring.nextf \in [Ids -> Pointer] /\ ring.prevf \in [Ids -> Pointer]
  BY <1>6 DEF TableType
<1>8. t \in TableType /\ t.players = Ids /\ t.pbet = bets
      /\ t.folded = [p \in Ids |-> p \notin live \cup joined]
  <2>1. EndRound - 1 \in Nat
    BY EndRoundType
  <2> QED
    BY <1>3, <1>5, <1>7, <2>1 DEF NewTable, TableType, Pointer
<1>9. Bets(t) \in Nat
  BY <1>8, ChipsType
<1> HIDE DEF t
<1>10. /\ table \in TableType /\ table.players = Ids /\ table.pbet = bets
       /\ table.folded = t.folded /\ table.pot = Bets(t) + dead
  BY <1>2, <1>3, <1>8, <1>9 DEF TableType
<1>11. Bets(table) = Bets(t)
  BY <1>8, <1>10 DEF Bets
<1>12. Bets(table) <= table.pot
  BY <1>3, <1>9, <1>10, <1>11
<1>13. Contenders(table) # {}
  BY <1>1, <1>8, <1>10 DEF Contenders
<1> QED
  BY <1>3, <1>10, <1>12, <1>13 DEF AtShowdown

\* For any number of players, any bets, whoever folded or came late, and whatever
\* departed players left in the pot: the sorted levels of pay_showdown_pots pay
\* what the rule of side pots pays chip by chip (lib.rs:682-745).
THEOREM PotsFollowTheRule ==
  ASSUME MaxBet \in Nat, MaxDead \in Nat
  PROVE  Rule!Spec => Rule!PaysByTheChip
<1>1. Rule!Init => AtShowdown
  BY InitAtShowdown
<1>2. AtShowdown /\ [Rule!Next]_(Rule!vars) => AtShowdown'
  <2> SUFFICES ASSUME AtShowdown, [Rule!Next]_(Rule!vars) PROVE AtShowdown'
    OBVIOUS
  <2>1. CASE Rule!Next
    <3>1. PICK rank \in Ranks[Contenders(table)] :
            IsRunning(table) /\ table' = EndGame(table, rank)
      BY <2>1, RuleReadings, RuleEndGame DEF Rule!Next, Rule!Showdown
    <3>2. table \in TableType /\ Contenders(table) # {} /\ Contenders(table) \in SUBSET Ids
      BY <3>1, ContendersSubset DEF AtShowdown
    <3>3. Best(table, rank, Contenders(table)) # None
      BY <3>1, <3>2, BestChosen, IdsAssumption
    <3>4. table'.turn = None
      BY <3>1, <3>2, <3>3, EndGameFields
    <3> QED
      BY <3>4 DEF AtShowdown, IsRunning
  <2>2. CASE UNCHANGED Rule!vars
    BY <2>2 DEF Rule!vars, AtShowdown, IsRunning, Bets, Contenders
  <2> QED
    BY <2>1, <2>2
<1> DEFINE Pays == \A p \in Ids :
                    Rule!Gain(p) = Rule!LayerChips({c \in 1..MaxBet : Rule!WinsLayer(p, c)})
                                   + IF p = table'.showdown THEN Rule!Rest ELSE 0
<1>3. AtShowdown /\ [Rule!Next]_(Rule!vars) => [Pays]_(Rule!vars)
  <2> SUFFICES ASSUME AtShowdown, Rule!Next, NEW p \in Ids
               PROVE  Rule!Gain(p) = Rule!LayerChips({c \in 1..MaxBet : Rule!WinsLayer(p, c)})
                                     + IF p = table'.showdown THEN Rule!Rest ELSE 0
    OBVIOUS
  <2>1. PICK rank \in Ranks[Contenders(table)] :
          /\ IsRunning(table) /\ table' = EndGame(table, rank)
          /\ strength' = [q \in Contenders(table) |-> Strength(table, rank, q)]
    BY RuleReadings, RuleEndGame DEF Rule!Next, Rule!Showdown
  <2>2. /\ table \in TableType /\ Contenders(table) # {} /\ Contenders(table) \in SUBSET Ids
        /\ Bets(table) <= table.pot /\ table.players = Ids
    BY <2>1, ContendersSubset DEF AtShowdown
  <2>3. Best(table, rank, Contenders(table)) # None
    BY <2>2, BestChosen, IdsAssumption
  <2>4. /\ table'.wallet = PayShowdownPots(table, rank)
        /\ table'.showdown = Best(table, rank, Contenders(table))
    BY <2>1, <2>2, <2>3, EndGameFields
  <2> DEFINE won  == LevelsWon(table, rank, p)
             lost == LevelsWon(table, rank, None)
             paid == Pots(table, Levels(table) \ lost)
  <2>5. won \in SUBSET Levels(table) /\ lost \in SUBSET Levels(table)
    BY DEF LevelsWon
  <2>6. Rule!LayerChips({c \in 1..MaxBet : Rule!WinsLayer(p, c)}) = Pots(table, won)
    <3> DEFINE f == [c \in 1..MaxBet |-> Cardinality(Rule!Layer(c))]
    <3>1. Spans(table, won) \in SUBSET (1..MaxBet)
      <4> SUFFICES ASSUME NEW l \in won, NEW c \in Span(table, l) PROVE c \in 1..MaxBet
        BY DEF Spans
      <4>1. l \in Levels(table)
        BY <2>5
      <4>2. l \in Nat /\ l <= MaxBet
        BY <2>1, <2>2, <4>1, LevelsFinite DEF AtShowdown, Levels
      <4>3. c \in Nat \ {0} /\ c <= l
        BY <2>2, <4>1, SpanBettors
      <4> QED
        BY <4>2, <4>3
    <3>2. {c \in 1..MaxBet : Rule!WinsLayer(p, c)} = Spans(table, won)
      <4>1. \A c \in 1..MaxBet : Rule!WinsLayer(p, c) <=> c \in Spans(table, won)
        BY <2>1, LayersWon
      <4> HIDE DEF won
      <4> QED
        BY <3>1, <4>1
    <3>3. \A c \in Spans(table, won) : f[c] = Cardinality(Bettors(table, c))
      <4>1. \A c : Rule!Layer(c) = Bettors(table, c)
        BY <2>2 DEF Rule!Layer, Bettors
      <4> HIDE DEF won
      <4> QED
        BY <3>1, <4>1
    <3>4. Rule!LayerChips(Spans(table, won)) = SumFunctionOnSet(f, Spans(table, won))
      BY RuleReadings DEF Rule!LayerChips
    <3> HIDE DEF f, won
    <3>5. Pots(table, won) = SumFunctionOnSet(f, Spans(table, won))
      BY <2>2, <2>5, <3>3, PotsAreChips
    <3> QED
      BY <3>2, <3>4, <3>5
  <2>7. Rule!Rest = table.pot - Bets(table) + Pots(table, lost)
    BY <2>1, RuleReadings, LayersLost DEF Rule!Rest
  <2>8. Bets(table) = Pots(table, lost) + paid /\ Pots(table, lost) \in Nat /\ paid \in Nat
    <3> DEFINE g == [l \in Levels(table) |-> LevelPot(table, l)]
    <3>1. IsFiniteSet(Levels(table)) /\ \A l \in Levels(table) : g[l] \in Nat
      BY <2>2, LevelsFinite, LevelPotType
    <3>2. Pots(table, lost) \in Nat /\ paid \in Nat
      BY <2>2, <2>5, PotsType
    <3> HIDE DEF g, lost
    <3>3. Pots(table, Levels(table)) = Pots(table, lost) + Pots(table, Levels(table) \ lost)
      BY <2>5, <3>1, SumUnion DEF Pots, g
    <3> QED
      BY <2>2, <3>2, <3>3, PotsAreBets
  <2>9. /\ table.wallet[p] \in Nat /\ table.pot \in Nat /\ Pots(table, won) \in Nat
        /\ table'.wallet[p] = table.wallet[p] + Pots(table, won)
              + IF p = table'.showdown THEN IF paid < table.pot THEN table.pot - paid ELSE 0 ELSE 0
    <3>1. table.wallet[p] \in Nat /\ table.pot \in Nat
      BY <2>2 DEF TableType
    <3>2. Pots(table, won) \in Nat
      BY <2>2, <2>5, PotsType
    <3> QED
      BY <2>4, <3>1, <3>2 DEF PayShowdownPots
  <2>10. Rule!Gain(p) = table'.wallet[p] - table.wallet[p]
    BY DEF Rule!Gain
  <2> HIDE DEF won, lost, paid
  <2> QED
    BY <2>2, <2>6, <2>7, <2>8, <2>9, <2>10
<1> QED
  BY <1>1, <1>2, <1>3, PTL DEF Rule!Spec, Rule!PaysByTheChip
=============================================================================
