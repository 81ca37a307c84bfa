---------------------------- MODULE GamesSafety -----------------------------
(***************************************************************************)
(* The theorems about SavedGames: what the threads of trigger_save write   *)
(* of a game is true of that game, in whatever order their statements run  *)
(* and whatever fails; and if nothing fails, the winner is written.        *)
(***************************************************************************)
EXTENDS SavedGames, TLAPS

TableType ==
  [seated : SUBSET Ids, ring : SUBSET Ids, live : SUBSET Ids, head : Ids \cup {None},
   game : 0..MaxGames, round : Nat]

TypeOK ==
  /\ table \in TableType
  /\ won = [g \in Games |-> won[g]] /\ sat = [g \in Games |-> sat[g]]
  /\ db = [games |-> db.games, winner |-> db.winner, links |-> db.links, states |-> db.states]
  /\ db.winner = [g \in Games |-> db.winner[g]]
  /\ db.states = [g \in Games |-> db.states[g]]
  /\ \A g \in Games : db.states[g] = [r \in Rounds |-> db.states[g][r]]
  /\ db.links \subseteq Games \X Ids
  /\ rows \subseteq Ids
  /\ faulty \in BOOLEAN /\ (~faulty => rows = Ids)

\* A thread knows players that sat at the table of its game, and the winner of
\* that game if it knows one.
ThreadOK(th) ==
  /\ th = [step |-> th.step, event |-> th.event, game |-> th.game, round |-> th.round,
           players |-> th.players, winner |-> th.winner]
  /\ th.game \in Games /\ th.players \subseteq Ids
  /\ th.players \subseteq sat[th.game]
  /\ th.winner \in {None, won[th.game]}
  /\ th.winner # None => th.winner \in Ids
  /\ ~faulty /\ th.step # "game" => th.game \in db.games

\* The game under way has no winner yet, and the next one has nothing.
HandOpen ==
  /\ table.ring # {} => table.game \in Games /\ won[table.game] = None
  /\ \A g \in Games : g > table.game => won[g] = None

\* If nothing fails, a winner who is not on record yet is in the hands of a thread.
OnItsWay(g) ==
  \/ db.winner[g] = won[g]
  \/ \E th \in BagToSet(threads) : th.game = g /\ th.winner = won[g]

GamesInv ==
  /\ TypeOK /\ HandOpen
  /\ \A th \in BagToSet(threads) : ThreadOK(th)
  /\ \A g \in Games : db.winner[g] \in {None, won[g]}
  /\ LinksSat
  /\ ~faulty => \A g \in Games : OnItsWay(g)

LEMMA BagAddSet == \A B, x : BagToSet(BagAdd(B, x)) = BagToSet(B) \cup {x}
BY DEF BagToSet, BagAdd

LEMMA BagRemoveSet ==
  \A B, x : /\ BagToSet(BagRemove(B, x)) \subseteq BagToSet(B)
            /\ BagToSet(B) \subseteq BagToSet(BagRemove(B, x)) \cup {x}
BY DEF BagToSet, BagRemove

LEMMA EmptyBagSet == BagToSet(EmptyBag) = {}
BY DEF BagToSet, EmptyBag, SetToBag

-----------------------------------------------------------------------------
(* The table.                                                               *)

\* A call that saves nothing.
LEMMA QuietKeeps ==
  ASSUME GamesInv, NEW later, Quietly(later),
         later \in TableType, later.game = table.game, later.ring # {} => table.ring # {}
  PROVE  GamesInv'
<1>1. table' = later /\ later.game = table.game /\ UNCHANGED <<threads, rows, db, faulty, won, sat>>
  BY DEF Quietly
<1>2. TypeOK'
  BY <1>1 DEF GamesInv, TypeOK, TableType, Games, Rounds
<1>3. HandOpen'
  BY <1>1 DEF GamesInv, HandOpen, Games
<1> QED
  BY <1>1, <1>2, <1>3 DEF GamesInv, ThreadOK, LinksSat, OnItsWay, Games

\* A snapshot of table t of the game under way, after which that game has the
\* winner that the snapshot has, or still none.
LEMMA SaveKeeps ==
  ASSUME GamesInv, NEW t, NEW event, NEW later, Save(t, event, later),
         t.game \in Games, t.seated \subseteq Ids,
         event = "end" => t.head \in Ids,
         won[t.game] = None,
         won' = [won EXCEPT ![t.game] = IF event = "end" THEN t.head ELSE None],
         later \in TableType, later.game = t.game, t.game >= table.game,
         later.ring = {} \/ event # "end"
  PROVE  GamesInv'
<1> DEFINE new == Snapshot(t, event)
           w   == IF event = "end" THEN t.head ELSE None
<1>1. /\ table' = later /\ later.game = t.game
      /\ threads' = BagAdd(threads, new)
      /\ sat' = [sat EXCEPT ![t.game] = @ \cup t.seated]
      /\ UNCHANGED <<rows, db, faulty>>
  BY DEF Save
<1>2. BagToSet(threads') = BagToSet(threads) \cup {new}
  BY <1>1, BagAddSet
<1>3. /\ new.step = "game" /\ new.game = t.game /\ new.players = t.seated /\ new.winner = w
      /\ new = [step |-> new.step, event |-> new.event, game |-> new.game,
                round |-> new.round, players |-> new.players, winner |-> new.winner]
  BY DEF Snapshot
<1> HIDE DEF new
<1>4. /\ won' = [g \in Games |-> won'[g]] /\ sat' = [g \in Games |-> sat'[g]]
      /\ won'[t.game] = w /\ sat'[t.game] = sat[t.game] \cup t.seated
      /\ \A g \in Games : /\ g # t.game => won'[g] = won[g]
                          /\ sat[g] \subseteq sat'[g]
  BY <1>1 DEF GamesInv, TypeOK
<1>5. TypeOK'
  BY <1>1, <1>4, GamesAssumption DEF GamesInv, TypeOK, TableType, Games, Rounds
<1>6. HandOpen'
  <2>1. \A g \in Games : g > t.game => won'[g] = None
    <3> SUFFICES ASSUME NEW g \in Games, g > t.game PROVE won'[g] = None
      OBVIOUS
    <3>1. g > table.game /\ g # t.game
      BY GamesAssumption DEF GamesInv, TypeOK, TableType, Games
    <3> QED
      BY <1>4, <3>1 DEF GamesInv, HandOpen
  <2>2. later.ring # {} => won'[t.game] = None
    BY <1>4
  <2> QED
    BY <1>1, <2>1, <2>2 DEF HandOpen, Games
<1>7. \A th \in BagToSet(threads') : ThreadOK(th)'
  <2>1. ThreadOK(new)'
    BY <1>1, <1>3, <1>4 DEF ThreadOK, Games
  <2>2. ASSUME NEW th \in BagToSet(threads)
        PROVE  ThreadOK(th)'
    <3>1. ThreadOK(th)
      BY DEF GamesInv
    <3>2. th.winner \in {None, won'[th.game]}
      BY <1>4, <3>1 DEF ThreadOK
    <3>3. th.players \subseteq sat'[th.game]
      BY <1>4, <3>1 DEF ThreadOK
    <3> QED
      BY <1>1, <3>1, <3>2, <3>3 DEF ThreadOK, Games
  <2> QED
    BY <1>2, <2>1, <2>2
<1>8. \A g \in Games : db'.winner[g] \in {None, won'[g]}
  <2>1. \A g \in Games : db.winner[g] \in {None, won[g]}
    BY DEF GamesInv
  <2> QED
    BY <1>1, <1>4, <2>1
<1>9. LinksSat'
  <2>1. \A l \in db.links : l[1] \in Games /\ l[2] \in sat[l[1]]
    BY DEF GamesInv, TypeOK, LinksSat
  <2> QED
    BY <1>1, <1>4, <2>1 DEF LinksSat
<1>10. (~faulty => \A g \in Games : OnItsWay(g))'
  <2> SUFFICES ASSUME ~faulty, NEW g \in Games
               PROVE  OnItsWay(g)'
    BY <1>1 DEF Games
  <2>1. OnItsWay(g)
    BY DEF GamesInv
  <2>2. CASE g = t.game
    BY <1>2, <1>3, <1>4, <2>2 DEF OnItsWay
  <2>3. CASE g # t.game
    BY <1>1, <1>2, <1>4, <2>1, <2>3 DEF OnItsWay
  <2> QED
    BY <2>2, <2>3
<1> QED
  BY <1>5, <1>6, <1>7, <1>8, <1>9, <1>10 DEF GamesInv, Games

\* EndGame on behalf of a call that goes on: the hand was under way until then.
LEMMA EndKeeps ==
  ASSUME GamesInv, table.ring # {},
         NEW t \in TableType, t.game = table.game, NEW winner \in Ids,
         NEW later \in TableType, later.game = table.game,
         EndGame(t, winner, later)
  PROVE  GamesInv'
<1> DEFINE u == [t EXCEPT !.head = winner]
           after == [later EXCEPT !.ring = {}, !.live = {}]
<1>1. /\ u.game = table.game /\ u.head = winner /\ u.seated \subseteq Ids
      /\ after \in TableType /\ after.game = table.game /\ after.ring = {}
  BY DEF TableType
<1>2. /\ Save(u, "end", after)
      /\ won' = [won EXCEPT ![u.game] = IF "end" = "end" THEN u.head ELSE None]
  BY <1>1 DEF EndGame
<1>3. table.game \in Games /\ won[table.game] = None /\ table.game >= table.game
  BY GamesAssumption DEF GamesInv, HandOpen, Games
<1> HIDE DEF u, after
<1>4. /\ u.game \in Games /\ u.head \in Ids /\ won[u.game] = None
      /\ u.game >= table.game /\ after.game = u.game
  BY <1>1, <1>3
<1> QED
  BY <1>1, <1>2, <1>4, SaveKeeps

\* A snapshot at the start of a hand or of a round.
LEMMA PlainSaveKeeps ==
  ASSUME GamesInv, NEW t, NEW event, event # "end", Save(t, event, t), UNCHANGED won,
         t \in TableType, t.game \in Games, won[t.game] = None, t.game >= table.game
  PROVE  GamesInv'
<1>1. won' = [won EXCEPT ![t.game] = IF event = "end" THEN t.head ELSE None]
  BY DEF GamesInv, TypeOK
<1>2. t.seated \subseteq Ids
  BY DEF TableType
<1> QED
  BY <1>1, <1>2, SaveKeeps

LEMMA JoinKeeps ==
  ASSUME GamesInv, NEW p \in Ids, Join(p)
  PROVE  GamesInv'
<1> DEFINE later == [table EXCEPT !.seated = @ \cup {p}, !.live = @ \cup {p},
                                  !.head = IF @ = None THEN p ELSE @]
<1>1. later \in TableType /\ later.game = table.game /\ later.ring = table.ring
  BY DEF GamesInv, TypeOK, TableType
<1>2. Quietly(later)
  BY DEF Join
<1> HIDE DEF later
<1> QED
  BY <1>1, <1>2, QuietKeeps

LEMMA StartKeeps ==
  ASSUME GamesInv, Start
  PROVE  GamesInv'
<1> DEFINE dealt == [table EXCEPT !.ring = table.seated, !.live = table.seated,
                                  !.game = @ + 1, !.round = 0]
<1>1. Save(dealt, "start", dealt) /\ UNCHANGED won /\ table.game < MaxGames
  BY DEF Start
<1> DEFINE n == table.game + 1
<1>2. dealt \in TableType /\ dealt.game = table.game + 1
  <2>1. n \in 0..MaxGames
    BY <1>1, GamesAssumption DEF GamesInv, TypeOK, TableType
  <2>2. dealt = [table EXCEPT !.ring = table.seated, !.live = table.seated,
                              !.game = n, !.round = 0]
    OBVIOUS
  <2>3. table \in TableType /\ 0 \in Nat
    BY DEF GamesInv, TypeOK
  <2> HIDE DEF n, dealt
  <2>4. dealt \in TableType /\ dealt.game = n
    BY <2>1, <2>2, <2>3 DEF TableType
  <2> QED
    BY <2>4 DEF n
<1> HIDE DEF dealt
<1>3. dealt.game \in Games /\ dealt.game > table.game /\ dealt.game >= table.game
  BY <1>1, <1>2, GamesAssumption DEF GamesInv, TypeOK, TableType, Games
<1>4. won[dealt.game] = None
  BY <1>3 DEF GamesInv, HandOpen
<1> QED
  BY <1>1, <1>2, <1>3, <1>4, PlainSaveKeeps

LEMMA AdvanceKeeps ==
  ASSUME GamesInv, Advance
  PROVE  GamesInv'
<1> DEFINE t == [table EXCEPT !.round = @ + 1]
<1>1. t \in TableType /\ t.game = table.game
  BY DEF GamesInv, TypeOK, TableType
<1>2. table.ring # {} /\ table.game \in Games /\ won[table.game] = None
  BY DEF Advance, GamesInv, HandOpen
<1>3. \/ Save(t, "advance", t) /\ UNCHANGED won
      \/ \E winner \in t.live : EndGame(t, winner, [t EXCEPT !.head = winner])
  BY DEF Advance
<1> HIDE DEF t
<1>4. CASE Save(t, "advance", t) /\ UNCHANGED won
  <2>1. t.game >= table.game
    BY <1>1, <1>2, GamesAssumption DEF Games
  <2> QED
    BY <1>1, <1>2, <1>4, <2>1, PlainSaveKeeps
<1>5. ASSUME NEW winner \in t.live, EndGame(t, winner, [t EXCEPT !.head = winner])
      PROVE  GamesInv'
  <2> DEFINE later == [t EXCEPT !.head = winner]
  <2>1. later \in TableType /\ later.game = table.game /\ winner \in Ids
    BY <1>1 DEF TableType
  <2>2. EndGame(t, winner, later)
    BY <1>5
  <2> HIDE DEF later
  <2> QED
    BY <1>1, <1>2, <2>1, <2>2, EndKeeps
<1> QED
  BY <1>3, <1>4, <1>5

\* A fold or a leave, whether or not it ends the hand.
LEMMA OutKeeps ==
  ASSUME GamesInv, NEW p \in Ids, NEW remaining, remaining \subseteq Ids,
         Out(p, remaining)
  PROVE  GamesInv'
<1> DEFINE t == [table EXCEPT !.ring = @ \ {p}, !.live = @ \ {p}]
           headed(heir, head) == IF head = p THEN heir ELSE head
<1>1. t \in TableType /\ t.game = table.game /\ t.ring = table.ring \ {p}
  BY DEF GamesInv, TypeOK, TableType
<1>2. PICK heir \in Heirs(p) :
        \/ /\ p \in table.ring
           /\ \E winner \in t.live :
                EndGame([t EXCEPT !.head = headed(heir, @)], winner,
                        [t EXCEPT !.head = winner, !.seated = remaining])
        \/ Quietly([t EXCEPT !.head = headed(heir, @), !.seated = remaining])
  BY DEF Out
<1>3. headed(heir, t.head) \in Ids \cup {None}
  BY <1>1, <1>2 DEF Heirs, GamesInv, TypeOK, TableType
<1> HIDE DEF t, headed
<1>4. ASSUME NEW winner \in t.live, p \in table.ring,
             EndGame([t EXCEPT !.head = headed(heir, @)], winner,
                     [t EXCEPT !.head = winner, !.seated = remaining])
      PROVE  GamesInv'
  <2> DEFINE u     == [t EXCEPT !.head = headed(heir, @)]
             later == [t EXCEPT !.head = winner, !.seated = remaining]
  <2>1. /\ u \in TableType /\ u.game = table.game /\ winner \in Ids
        /\ later \in TableType /\ later.game = table.game
    BY <1>1, <1>3 DEF TableType
  <2>2. EndGame(u, winner, later) /\ table.ring # {}
    BY <1>4
  <2> HIDE DEF u, later
  <2> QED
    BY <2>1, <2>2, EndKeeps
<1>5. CASE Quietly([t EXCEPT !.head = headed(heir, @), !.seated = remaining])
  <2> DEFINE later == [t EXCEPT !.head = headed(heir, @), !.seated = remaining]
  <2>1. /\ later \in TableType /\ later.game = table.game
        /\ later.ring # {} => table.ring # {}
    BY <1>1, <1>3 DEF TableType
  <2>2. Quietly(later)
    BY <1>5
  <2> HIDE DEF later
  <2> QED
    BY <2>1, <2>2, QuietKeeps
<1> QED
  BY <1>2, <1>4, <1>5

\* The threads are lost, and with them what they had not written yet.
LEMMA StopKeeps ==
  ASSUME GamesInv, Stop
  PROVE  GamesInv'
<1>1. /\ faulty /\ threads' = EmptyBag /\ UNCHANGED <<rows, db, faulty, won, sat>>
      /\ table' = [NewTable EXCEPT !.game = table.game]
  BY DEF Stop
<1>2. /\ table' \in TableType /\ table'.ring = {} /\ table'.game = table.game
      /\ BagToSet(threads') = {}
  BY <1>1, EmptyBagSet DEF NewTable, GamesInv, TypeOK, TableType
<1> QED
  BY <1>1, <1>2 DEF GamesInv, TypeOK, TableType, HandOpen, LinksSat, Games, Rounds

-----------------------------------------------------------------------------
(* The threads.                                                             *)

\* A thread goes on as th's successor, or is done: it takes the snapshot along, and
\* what it writes is true of the game.
LEMMA ThreadKeeps ==
  ASSUME GamesInv, NEW th \in BagToSet(threads), NEW next, NEW d,
         threads' = BagAdd(BagRemove(threads, th), next) \/ threads' = BagRemove(threads, th),
         threads' # BagAdd(BagRemove(threads, th), next) =>
           faulty \/ th.winner = None \/ d.winner[th.game] = th.winner,
         db' = d, UNCHANGED <<table, rows, faulty, won, sat>>,
         next = [step |-> next.step, event |-> th.event, game |-> th.game, round |-> th.round,
                 players |-> next.players, winner |-> th.winner],
         next.players \subseteq th.players,
         ~faulty /\ next.step # "game" => th.game \in d.games,
         db.games \subseteq d.games,
         d = [games |-> d.games, winner |-> d.winner, links |-> d.links, states |-> d.states],
         \/ d.winner = db.winner
         \/ th.winner \in Ids /\ d.winner = [db.winner EXCEPT ![th.game] = th.winner],
         d.links \subseteq db.links \cup {<<th.game, p>> : p \in th.players},
         \/ d.states = db.states
         \/ \E s : d.states = [db.states EXCEPT ![th.game][th.round] = s]
  PROVE  GamesInv'
<1>1. ThreadOK(th)
  BY DEF GamesInv
<1>2. \A o \in BagToSet(threads) \ {th} : o \in BagToSet(threads')
  BY BagAddSet, BagRemoveSet
<1>3. BagToSet(threads') \subseteq BagToSet(threads) \cup {next}
  BY BagAddSet, BagRemoveSet
<1>4. /\ d.winner = [g \in Games |-> d.winner[g]]
      /\ \A g \in Games : d.winner[g] \in {None, won[g]}
      /\ \A g \in Games : db.winner[g] = won[g] => d.winner[g] = won[g]
  <2>1. /\ db.winner = [g \in Games |-> db.winner[g]]
        /\ \A g \in Games : db.winner[g] \in {None, won[g]}
    BY DEF GamesInv, TypeOK
  <2>2. th.game \in Games /\ th.winner \in {None, won[th.game]}
    BY <1>1 DEF ThreadOK
  <2>3. CASE d.winner = db.winner
    BY <2>1, <2>3
  <2>4. CASE th.winner \in Ids /\ d.winner = [db.winner EXCEPT ![th.game] = th.winner]
    <3>1. th.winner = won[th.game]
      BY <2>2, <2>4, GamesAssumption
    <3> QED
      BY <2>1, <2>2, <2>4, <3>1
  <2> QED
    BY <2>3, <2>4
<1>5. d.links \subseteq Games \X Ids /\ LinksSat'
  BY <1>1 DEF GamesInv, TypeOK, ThreadOK, LinksSat
<1>6. /\ d.states = [g \in Games |-> d.states[g]]
      /\ \A g \in Games : d.states[g] = [r \in Rounds |-> d.states[g][r]]
  <2>1. /\ db.states = [g \in Games |-> db.states[g]]
        /\ \A g \in Games : db.states[g] = [r \in Rounds |-> db.states[g][r]]
    BY DEF GamesInv, TypeOK
  <2>2. ASSUME NEW s, d.states = [db.states EXCEPT ![th.game][th.round] = s]
        PROVE  /\ d.states = [g \in Games |-> d.states[g]]
               /\ \A g \in Games : d.states[g] = [r \in Rounds |-> d.states[g][r]]
    <3> DEFINE row == [db.states[th.game] EXCEPT ![th.round] = s]
    <3>1. d.states = [db.states EXCEPT ![th.game] = row]
      BY <2>2
    <3>2. th.game \in Games
      BY <1>1 DEF ThreadOK
    <3>3. row = [r \in Rounds |-> row[r]]
      BY <2>1, <3>2
    <3> HIDE DEF row
    <3>4. d.states = [g \in Games |-> IF g = th.game THEN row ELSE db.states[g]]
      BY <2>1, <3>1
    <3>5. d.states[th.game] = row
      BY <3>2, <3>4
    <3>6. \A g \in Games : g # th.game => d.states[g] = db.states[g]
      BY <3>4
    <3> QED
      BY <2>1, <3>3, <3>4, <3>5, <3>6
  <2> QED
    BY <2>1, <2>2
<1>7. TypeOK' /\ HandOpen'
  BY <1>4, <1>5, <1>6 DEF GamesInv, TypeOK, TableType, HandOpen, Games, Rounds
<1>8. \A o \in BagToSet(threads') : ThreadOK(o)'
  <2>1. ThreadOK(next)'
    BY <1>1 DEF ThreadOK, Games
  <2>2. \A o \in BagToSet(threads) : ThreadOK(o)'
    BY DEF GamesInv, ThreadOK, Games
  <2> QED
    BY <1>3, <2>1, <2>2
<1>9. (~faulty => \A g \in Games : OnItsWay(g))'
  <2> SUFFICES ASSUME ~faulty, NEW g \in Games
               PROVE  OnItsWay(g)'
    BY DEF Games
  <2>1. OnItsWay(g)
    BY DEF GamesInv
  <2>2. CASE db.winner[g] = won[g]
    BY <1>4, <2>2 DEF OnItsWay
  <2>3. ASSUME NEW o \in BagToSet(threads) \ {th}, o.game = g, o.winner = won[g]
        PROVE  OnItsWay(g)'
    BY <1>2, <2>3 DEF OnItsWay
  <2>4. CASE th.game = g /\ th.winner = won[g]
    <3>1. CASE threads' = BagAdd(BagRemove(threads, th), next)
      <4>1. next \in BagToSet(threads') /\ next.game = g /\ next.winner = won[g]
        BY <2>4, <3>1, BagAddSet
      <4> QED
        BY <4>1 DEF OnItsWay
    <3>2. CASE threads' # BagAdd(BagRemove(threads, th), next)
      BY <1>4, <2>4, <3>2 DEF OnItsWay
    <3> QED
      BY <3>1, <3>2
  <2> QED
    BY <2>1, <2>2, <2>3, <2>4 DEF OnItsWay
<1> QED
  BY <1>4, <1>5, <1>7, <1>8, <1>9 DEF GamesInv, Games

\* What EXCEPT makes of the record of a thread, and of the record of the games.
LEMMA StepOn ==
  \A a, b, c, d, e, f, s :
    [[step |-> a, event |-> b, game |-> c, round |-> d, players |-> e, winner |-> f]
       EXCEPT !.step = s] =
    [step |-> s, event |-> b, game |-> c, round |-> d, players |-> e, winner |-> f]
OBVIOUS

LEMMA PlayersLeft ==
  \A a, b, c, d, e, f, s :
    [[step |-> a, event |-> b, game |-> c, round |-> d, players |-> e, winner |-> f]
       EXCEPT !.players = s] =
    [step |-> a, event |-> b, game |-> c, round |-> d, players |-> s, winner |-> f]
OBVIOUS

LEMMA RecordOn ==
  \A a, b, c, d, s :
    LET r == [games |-> a, winner |-> b, links |-> c, states |-> d]
    IN /\ [r EXCEPT !.games = s]  = [games |-> s, winner |-> b, links |-> c, states |-> d]
       /\ [r EXCEPT !.winner = s] = [games |-> a, winner |-> s, links |-> c, states |-> d]
       /\ [r EXCEPT !.links = s]  = [games |-> a, winner |-> b, links |-> s, states |-> d]
       /\ [r EXCEPT !.states = s] = [games |-> a, winner |-> b, links |-> c, states |-> s]
OBVIOUS

\* The fields of a thread, and of the record.
LEMMA ThreadFields ==
  ASSUME GamesInv, NEW th \in BagToSet(threads)
  PROVE  /\ th = [step |-> th.step, event |-> th.event, game |-> th.game, round |-> th.round,
                  players |-> th.players, winner |-> th.winner]
         /\ th.game \in Games
         /\ ~faulty /\ th.step # "game" => th.game \in db.games
         /\ th.winner # None => th.winner \in Ids
         /\ ~faulty => rows = Ids
         /\ rows \subseteq Ids
         /\ db = [games |-> db.games, winner |-> db.winner, links |-> db.links,
                  states |-> db.states]
         /\ db.winner = [g \in Games |-> db.winner[g]]
BY DEF GamesInv, TypeOK, ThreadOK

\* The thread that goes on: q is th at another statement, or with other players left.
Follows(q, th) ==
  q = [step |-> q.step, event |-> th.event, game |-> th.game, round |-> th.round,
       players |-> q.players, winner |-> th.winner]

LEMMA StepFollows ==
  ASSUME GamesInv, NEW th \in BagToSet(threads), NEW s
  PROVE  LET q == [th EXCEPT !.step = s]
         IN Follows(q, th) /\ q.step = s /\ q.players = th.players
<1> DEFINE a == th.step  b == th.event  c == th.game  d == th.round  e == th.players
           f == th.winner  q == [th EXCEPT !.step = s]
<1>1. th = [step |-> a, event |-> b, game |-> c, round |-> d, players |-> e, winner |-> f]
  BY ThreadFields
<1> HIDE DEF a, b, c, d, e, f
<1>2. q = [step |-> s, event |-> b, game |-> c, round |-> d, players |-> e, winner |-> f]
  BY <1>1, StepOn
<1> HIDE DEF q
<1>3. q.step = s /\ q.players = e
  BY <1>2
<1>4. q = [step |-> q.step, event |-> b, game |-> c, round |-> d, players |-> q.players,
           winner |-> f]
  BY <1>2, <1>3
<1> QED
  BY <1>3, <1>4 DEF Follows, a, b, c, d, e, f, q

LEMMA PlayersFollow ==
  ASSUME GamesInv, NEW th \in BagToSet(threads), NEW s
  PROVE  LET q == [th EXCEPT !.players = s]
         IN Follows(q, th) /\ q.step = th.step /\ q.players = s
<1> DEFINE a == th.step  b == th.event  c == th.game  d == th.round  e == th.players
           f == th.winner  q == [th EXCEPT !.players = s]
<1>1. th = [step |-> a, event |-> b, game |-> c, round |-> d, players |-> e, winner |-> f]
  BY ThreadFields
<1> HIDE DEF a, b, c, d, e, f
<1>2. q = [step |-> a, event |-> b, game |-> c, round |-> d, players |-> s, winner |-> f]
  BY <1>1, PlayersLeft
<1> HIDE DEF q
<1>3. q.step = a /\ q.players = s
  BY <1>2
<1>4. q = [step |-> q.step, event |-> b, game |-> c, round |-> d, players |-> q.players,
           winner |-> f]
  BY <1>2, <1>3
<1> QED
  BY <1>3, <1>4 DEF Follows, a, b, c, d, e, f, q

LEMMA GamesOn ==
  ASSUME GamesInv, NEW s
  PROVE  LET r == [db EXCEPT !.games = s]
         IN /\ r = [games |-> r.games, winner |-> r.winner, links |-> r.links,
                    states |-> r.states]
            /\ r.games = s /\ r.winner = db.winner /\ r.links = db.links
            /\ r.states = db.states
<1> DEFINE a == db.games  b == db.winner  c == db.links  d == db.states
           r == [db EXCEPT !.games = s]
<1>1. db = [games |-> a, winner |-> b, links |-> c, states |-> d]
  BY DEF GamesInv, TypeOK
<1> HIDE DEF a, b, c, d
<1>2. r = [games |-> s, winner |-> b, links |-> c, states |-> d]
  BY <1>1, RecordOn
<1> HIDE DEF r
<1>3. r.games = s /\ r.winner = b /\ r.links = c /\ r.states = d
  BY <1>2
<1> QED
  BY <1>2, <1>3 DEF a, b, c, d, r

\* A thread that goes on to another statement, or with fewer players left to link,
\* and has written nothing.
LEMMA IdleKeeps ==
  ASSUME GamesInv, NEW th \in BagToSet(threads), NEW next,
         Continue(th, next), UNCHANGED <<table, rows, db, faulty, won, sat>>,
         \/ \E s : next = [th EXCEPT !.step = s]
         \/ \E p : next = [th EXCEPT !.players = @ \ {p}],
         faulty \/ th.step # "game"
  PROVE  GamesInv'
<1>1. Follows(next, th) /\ next.players \subseteq th.players
  <2>1. ASSUME NEW s, next = [th EXCEPT !.step = s]
        PROVE  Follows(next, th) /\ next.players \subseteq th.players
    BY <2>1, StepFollows
  <2>2. ASSUME NEW p, next = [th EXCEPT !.players = @ \ {p}]
        PROVE  Follows(next, th) /\ next.players \subseteq th.players
    <3> DEFINE q == [th EXCEPT !.players = th.players \ {p}]
    <3>1. Follows(q, th) /\ q.players = th.players \ {p}
      BY PlayersFollow
    <3>2. next = q
      BY <2>2
    <3> HIDE DEF q
    <3> QED
      BY <3>1, <3>2
  <2> QED
    BY <2>1, <2>2
<1>2. ~faulty /\ next.step # "game" => th.game \in db.games
  BY ThreadFields
<1>3. db = [games |-> db.games, winner |-> db.winner, links |-> db.links, states |-> db.states]
  BY ThreadFields
<1>4. threads' = BagAdd(BagRemove(threads, th), next)
  BY DEF Continue
<1>5. db' = db /\ UNCHANGED <<table, rows, faulty, won, sat>>
  OBVIOUS
<1> QED
  BY <1>1, <1>2, <1>3, <1>4, <1>5, ThreadKeeps DEF Follows

LEMMA SaveGameKeeps ==
  ASSUME GamesInv, NEW th \in BagToSet(threads), SaveGame(th),
         UNCHANGED <<table, rows, faulty, won, sat>>
  PROVE  GamesInv'
<1> DEFINE next == [th EXCEPT !.step = "state"]
           d    == [db EXCEPT !.games = @ \cup {th.game}]
<1>1. Follows(next, th) /\ next.players \subseteq th.players
  BY StepFollows
<1>2. /\ d = [games |-> d.games, winner |-> d.winner, links |-> d.links, states |-> d.states]
      /\ th.game \in d.games /\ db.games \subseteq d.games
      /\ d.winner = db.winner /\ d.states = db.states
      /\ d.links \subseteq db.links \cup {<<th.game, p>> : p \in th.players}
  BY GamesOn
<1>3. threads' = BagAdd(BagRemove(threads, th), next) /\ db' = d
  BY DEF SaveGame, Continue
<1> HIDE DEF next, d
<1> QED
  BY <1>1, <1>2, <1>3, ThreadKeeps DEF Follows

LEMMA SaveStateKeeps ==
  ASSUME GamesInv, NEW th \in BagToSet(threads), SaveState(th),
         UNCHANGED <<table, rows, faulty, won, sat>>
  PROVE  GamesInv'
<1> DEFINE new  == th.game \in db.games /\ db.states[th.game][th.round] = None
           next == [th EXCEPT !.step = IF new THEN "links" ELSE "winner"]
           d    == IF new THEN [db EXCEPT !.states[th.game][th.round] = th.event] ELSE db
<1>1. Follows(next, th) /\ next.players \subseteq th.players
  BY StepFollows
<1>2. /\ d = [games |-> d.games, winner |-> d.winner, links |-> d.links, states |-> d.states]
      /\ d.games = db.games /\ d.winner = db.winner /\ d.links = db.links
      /\ \/ d.states = db.states
         \/ \E s : d.states = [db.states EXCEPT ![th.game][th.round] = s]
  BY ThreadFields
<1>3. threads' = BagAdd(BagRemove(threads, th), next) /\ db' = d
  BY DEF SaveState, Continue
<1>4. ~faulty /\ next.step # "game" => th.game \in d.games
  BY <1>2, ThreadFields DEF SaveState
<1> HIDE DEF new, next, d
<1> QED
  BY <1>1, <1>2, <1>3, <1>4, ThreadKeeps DEF Follows

LEMMA SaveLinkKeeps ==
  ASSUME GamesInv, NEW th \in BagToSet(threads), SaveLink(th),
         UNCHANGED <<table, rows, faulty, won, sat>>
  PROVE  GamesInv'
<1>1. th.step # "game"
  BY DEF SaveLink
<1>2. CASE UNCHANGED db /\ Continue(th, [th EXCEPT !.step = "winner"])
  BY <1>1, <1>2, IdleKeeps
<1>3. ASSUME NEW p \in th.players, Continue(th, [th EXCEPT !.players = @ \ {p}]),
             db' = IF p \in rows THEN [db EXCEPT !.links = @ \cup {<<th.game, p>>}] ELSE db
      PROVE  GamesInv'
  <2> DEFINE next == [th EXCEPT !.players = @ \ {p}]
             d    == IF p \in rows THEN [db EXCEPT !.links = @ \cup {<<th.game, p>>}] ELSE db
  <2>1. Follows(next, th) /\ next.players \subseteq th.players
    BY PlayersFollow
  <2>2. /\ d = [games |-> d.games, winner |-> d.winner, links |-> d.links, states |-> d.states]
        /\ d.games = db.games /\ d.winner = db.winner /\ d.states = db.states
        /\ d.links \subseteq db.links \cup {<<th.game, q>> : q \in th.players}
    BY ThreadFields
  <2>3. threads' = BagAdd(BagRemove(threads, th), next) /\ db' = d
    BY <1>3 DEF Continue
  <2>4. ~faulty => th.game \in d.games
    BY <1>1, <2>2, ThreadFields
  <2> HIDE DEF next, d
  <2> QED
    BY <2>1, <2>2, <2>3, <2>4, ThreadKeeps DEF Follows
<1> QED
  BY <1>2, <1>3 DEF SaveLink

LEMMA SaveWinnerKeeps ==
  ASSUME GamesInv, NEW th \in BagToSet(threads), SaveWinner(th),
         UNCHANGED <<table, rows, faulty, won, sat>>
  PROVE  GamesInv'
<1> DEFINE d == IF th.winner \in rows /\ th.game \in db.games
                THEN [db EXCEPT !.winner[th.game] = th.winner] ELSE db
<1>1. /\ d = [games |-> d.games, winner |-> d.winner, links |-> d.links, states |-> d.states]
      /\ d.games = db.games /\ d.links = db.links /\ d.states = db.states
      /\ \/ d.winner = db.winner
         \/ th.winner \in Ids /\ d.winner = [db.winner EXCEPT ![th.game] = th.winner]
  BY ThreadFields
<1>2. threads' = BagRemove(threads, th) /\ db' = d /\ th.step # "game"
  BY DEF SaveWinner, Finish
<1>3. faulty \/ th.winner = None \/ d.winner[th.game] = th.winner
  BY <1>2, ThreadFields
<1>4. ~faulty => th.game \in d.games
  BY <1>1, <1>2, ThreadFields
<1>5. \* the thread is done; were it not, it would go on as it is
      /\ th = [step |-> th.step, event |-> th.event, game |-> th.game, round |-> th.round,
               players |-> th.players, winner |-> th.winner]
      /\ th.players \subseteq th.players
  BY ThreadFields
<1> HIDE DEF d
<1> QED
  BY <1>1, <1>2, <1>3, <1>4, <1>5, ThreadKeeps DEF Follows

LEMMA FailKeeps ==
  ASSUME GamesInv, NEW th \in BagToSet(threads), Fail(th),
         UNCHANGED <<table, rows, faulty, won, sat>>
  PROVE  GamesInv'
<1>1. faulty /\ UNCHANGED db
  BY DEF Fail
<1>2. CASE Finish(th)
  <2>1. /\ th = [step |-> th.step, event |-> th.event, game |-> th.game, round |-> th.round,
                 players |-> th.players, winner |-> th.winner]
        /\ db = [games |-> db.games, winner |-> db.winner, links |-> db.links,
                 states |-> db.states]
    BY ThreadFields
  <2>2. threads' = BagRemove(threads, th) /\ db' = db
    BY <1>1, <1>2 DEF Finish
  <2> QED
    BY <1>1, <2>1, <2>2, ThreadKeeps DEF Follows
<1>3. CASE Continue(th, [th EXCEPT !.step = "state"])
  BY <1>1, <1>3, IdleKeeps
<1>4. CASE Continue(th, [th EXCEPT !.step = "winner"])
  BY <1>1, <1>4, IdleKeeps
<1>5. ASSUME NEW p \in th.players, Continue(th, [th EXCEPT !.players = @ \ {p}])
      PROVE  GamesInv'
  BY <1>1, <1>5, IdleKeeps
<1> QED
  BY <1>2, <1>3, <1>4, <1>5 DEF Fail

-----------------------------------------------------------------------------
(* The players' rows.                                                       *)

\* The rows change, and of the record at most links and winners go.
LEMMA RowsKeep ==
  ASSUME GamesInv, faulty, rows' \subseteq Ids, UNCHANGED <<table, threads, faulty, won, sat>>,
         NEW links, links \subseteq db.links, NEW winner,
         winner = [g \in Games |-> winner[g]],
         \A g \in Games : winner[g] \in {None, db.winner[g]},
         db' = [db EXCEPT !.links = links, !.winner = winner]
  PROVE  GamesInv'
<1>1. db' = [games |-> db.games, winner |-> winner, links |-> links, states |-> db.states]
  BY DEF GamesInv, TypeOK
<1>2. /\ db'.winner = winner /\ db'.states = db.states /\ db'.links = links
      /\ db' = [games |-> db'.games, winner |-> db'.winner, links |-> db'.links,
                states |-> db'.states]
  BY <1>1
<1>3. TypeOK'
  BY <1>2 DEF GamesInv, TypeOK, TableType, Games, Rounds
<1>4. \A g \in Games : db'.winner[g] \in {None, won[g]}
  BY <1>1 DEF GamesInv
<1>5. (\A th \in BagToSet(threads) : ThreadOK(th))'
  BY DEF GamesInv, ThreadOK, Games
<1> QED
  BY <1>2, <1>3, <1>4, <1>5 DEF GamesInv, HandOpen, LinksSat, Games

LEMMA RowComesKeeps ==
  ASSUME GamesInv, NEW p \in Ids, RowComes(p)
  PROVE  GamesInv'
<1>1. /\ rows' \subseteq Ids /\ faulty /\ UNCHANGED <<table, threads, faulty, won, sat>>
      /\ db' = [db EXCEPT !.links = db.links, !.winner = db.winner]
      /\ db.winner = [g \in Games |-> db.winner[g]]
  BY DEF RowComes, GamesInv, TypeOK
<1> QED
  BY <1>1, RowsKeep

LEMMA LinksGoKeeps ==
  ASSUME GamesInv, NEW p \in Ids, LinksGo(p)
  PROVE  GamesInv'
<1> DEFINE links == {l \in db.links : l[2] # p}
<1>1. /\ rows' \subseteq Ids /\ faulty /\ UNCHANGED <<table, threads, faulty, won, sat>>
      /\ db' = [db EXCEPT !.links = links, !.winner = db.winner]
      /\ db.winner = [g \in Games |-> db.winner[g]]
      /\ links \subseteq db.links
  BY DEF LinksGo, GamesInv, TypeOK
<1> HIDE DEF links
<1> QED
  BY <1>1, RowsKeep

LEMMA RowGoesKeeps ==
  ASSUME GamesInv, NEW p \in Ids, RowGoes(p)
  PROVE  GamesInv'
<1> DEFINE links  == {l \in db.links : l[2] # p}
           winner == [g \in Games |-> IF db.winner[g] = p THEN None ELSE db.winner[g]]
<1>1. /\ rows' \subseteq Ids /\ faulty /\ UNCHANGED <<table, threads, faulty, won, sat>>
      /\ db' = [db EXCEPT !.links = links, !.winner = winner]
      /\ links \subseteq db.links
  BY DEF RowGoes, GamesInv, TypeOK
<1>2. /\ winner = [g \in Games |-> winner[g]]
      /\ \A g \in Games : winner[g] \in {None, db.winner[g]}
  OBVIOUS
<1> HIDE DEF links, winner
<1> QED
  BY <1>1, <1>2, RowsKeep

-----------------------------------------------------------------------------
(* Every step.                                                              *)

LEMMA GamesStart ==
  ASSUME Init
  PROVE  GamesInv
<1>1. TypeOK /\ BagToSet(threads) = {}
  BY EmptyBagSet, GamesAssumption DEF Init, NewTable, NewRecord, NoWinners, NoPlayers, TypeOK, TableType
<1> QED
  BY <1>1 DEF Init, NewTable, NewRecord, NoWinners, NoPlayers, GamesInv, HandOpen, LinksSat, OnItsWay, Games

LEMMA GamesStep ==
  ASSUME GamesInv, [Next]_vars
  PROVE  GamesInv'
<1>1. CASE UNCHANGED vars
  <2>1. UNCHANGED <<table, threads, rows, db, faulty, won, sat>>
    BY <1>1 DEF vars
  <2>2. TypeOK' /\ HandOpen'
    BY <2>1 DEF GamesInv, TypeOK, HandOpen, Games, Rounds, TableType
  <2>3. \A th \in BagToSet(threads') : ThreadOK(th)'
    BY <2>1 DEF GamesInv, ThreadOK, Games
  <2>4. (\A g \in Games : db.winner[g] \in {None, won[g]})' /\ LinksSat'
    BY <2>1 DEF GamesInv, LinksSat, Games
  <2>5. (~faulty => \A g \in Games : OnItsWay(g))'
    BY <2>1 DEF GamesInv, OnItsWay, Games
  <2> QED
    BY <2>2, <2>3, <2>4, <2>5 DEF GamesInv
<1>2. CASE Run
  BY <1>2, SaveGameKeeps, SaveStateKeeps, SaveLinkKeeps, SaveWinnerKeeps, FailKeeps DEF Run
<1>3. ASSUME NEW p \in Ids, FoldHand(p)
      PROVE  GamesInv'
  <2>1. table.seated \subseteq Ids
    BY DEF GamesInv, TypeOK, TableType
  <2> QED
    BY <1>3, <2>1, OutKeeps DEF FoldHand
<1>4. ASSUME NEW p \in Ids, Leave(p)
      PROVE  GamesInv'
  <2>1. table.seated \ {p} \subseteq Ids
    BY DEF GamesInv, TypeOK, TableType
  <2> QED
    BY <1>4, <2>1, OutKeeps DEF Leave
<1> QED
  BY <1>1, <1>2, <1>3, <1>4, StartKeeps, AdvanceKeeps, StopKeeps, JoinKeeps,
     RowComesKeeps, LinksGoKeeps, RowGoesKeeps DEF Next

\* GamesInv is inductive: the table's calls, the statements of the threads, the
\* rows that come and go, faults and a stop of the server all keep it.
THEOREM GamesSound == Spec => []GamesInv
<1>1. Init => GamesInv
  BY GamesStart
<1>2. GamesInv /\ [Next]_vars => GamesInv'
  BY GamesStep
<1> QED
  BY <1>1, <1>2, PTL DEF Spec

\* The winner on record is the winner of that game, and the players linked to it
\* were at its table; if nothing fails, every game that ended has its winner on
\* record once the threads of trigger_save have run, in any order.
THEOREM RecordsAreRight == Spec => []GamesRecorded
<1>1. GamesInv => GamesRecorded
  BY EmptyBagSet DEF GamesInv, OnItsWay, GamesRecorded, WinnerRecorded
<1> QED
  BY <1>1, GamesSound, PTL

\* What was saved of a round of a game stays as it is: the statements of the
\* threads that come later, and the rows that come and go, leave it.
THEOREM RoundsStay == Spec => RoundsKept
<1>1. GamesInv /\ [Next]_vars => [RoundKept]_vars
  <2> SUFFICES ASSUME GamesInv, Next
               PROVE  RoundKept
    BY DEF vars, RoundKept
  <2>1. CASE UNCHANGED db
    BY <2>1 DEF RoundKept
  <2>2. db = [games |-> db.games, winner |-> db.winner, links |-> db.links,
              states |-> db.states]
    BY DEF GamesInv, TypeOK
  <2>3. CASE db'.states = db.states
    BY <2>3 DEF RoundKept
  <2>4. ASSUME NEW th \in BagToSet(threads), SaveState(th)
        PROVE  RoundKept
    <3>1. /\ th.game \in Games
          /\ db.states = [g \in Games |-> db.states[g]]
          /\ \A g \in Games : db.states[g] = [r \in Rounds |-> db.states[g][r]]
      BY DEF GamesInv, TypeOK, ThreadOK
    <3>2. CASE /\ db.states[th.game][th.round] = None
               /\ db' = [db EXCEPT !.states[th.game][th.round] = th.event]
      <4> DEFINE row == [db.states[th.game] EXCEPT ![th.round] = th.event]
      <4>1. db'.states = [db.states EXCEPT ![th.game] = row]
        BY <2>2, <3>2
      <4>2. \A r \in Rounds : r # th.round => row[r] = db.states[th.game][r]
        BY <3>1
      <4> HIDE DEF row
      <4>3. /\ db'.states[th.game] = row
            /\ \A g \in Games : g # th.game => db'.states[g] = db.states[g]
        BY <3>1, <4>1
      <4> QED
        BY <3>2, <4>2, <4>3 DEF RoundKept
    <3> QED
      BY <2>1, <3>2, <2>4 DEF SaveState
  <2>5. ASSUME NEW th \in BagToSet(threads),
               SaveGame(th) \/ SaveLink(th) \/ SaveWinner(th) \/ Fail(th)
        PROVE  db'.states = db.states
    BY <2>2, <2>5 DEF SaveGame, SaveLink, SaveWinner, Fail
  <2>6. CASE Run
    BY <2>3, <2>4, <2>5, <2>6 DEF Run
  <2>7. ASSUME NEW p \in Ids, LinksGo(p) \/ RowGoes(p)
        PROVE  db'.states = db.states
    BY <2>2, <2>7 DEF LinksGo, RowGoes
  <2>8. CASE Start \/ Advance \/ Stop
    BY <2>1, <2>8 DEF Start, Advance, Stop, Save, EndGame
  <2>9. ASSUME NEW p \in Ids, Join(p) \/ FoldHand(p) \/ Leave(p) \/ RowComes(p)
        PROVE  UNCHANGED db
    BY <2>9 DEF Join, FoldHand, Leave, Out, RowComes, Quietly, EndGame, Save
  <2> QED
    BY <2>1, <2>3, <2>6, <2>7, <2>8, <2>9 DEF Next
<1> QED
  BY <1>1, GamesSound, PTL DEF Spec, RoundsKept

=============================================================================
