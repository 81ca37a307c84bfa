------------------------------ MODULE TableOps ------------------------------
(***************************************************************************)
(* The methods of Table<G, Db> (Server/src/lib.rs) as operators from one   *)
(* value of the struct to the next.                                        *)
(*                                                                         *)
(* A value t of the struct is a record.  Its fields players, head, bettor, *)
(* blind, turn, bet, pot, showdown and next_game_players (here confirmed)  *)
(* are the struct's; round is the game's; wallet, pbet, folded, nextf,     *)
(* prevf, next and prev are the fields of the PlayerNodes, as functions of *)
(* the player's id, with fixed values for the ids that are not seated.  A  *)
(* pointer to a node is the id of its player, or None.                     *)
(*                                                                         *)
(*   - clock abstracts turn_started_at: "off" is None, "fresh" less than   *)
(*     TURN_TIMEOUT ago, "expired" the rest;                               *)
(*   - showdown keeps only the winner the screen shows, or None;           *)
(*   - health is "ok" until the call that holds the table's mutex never    *)
(*     returns it: "selflock" when it locks a node it already holds,       *)
(*     "unwrap" and "overflow" when it panics and poisons the mutex.       *)
(*                                                                         *)
(* Two choices the code leaves to chance are parameters of the operators:  *)
(* order, the order in which the HashMap yields the players (a bijection   *)
(* from 1..n), and rank, the relative strength of the contenders' hands    *)
(* as dealt (a bijection to 1..n).                                         *)
(***************************************************************************)
EXTENDS Integers, FiniteSets, FiniteSetsExt, Functions

CONSTANTS
  Ids,            \* the player ids that may ever come to the table
  None,           \* Rust's None
  MaxPlayers,     \* MAX_PLAYERS_PER_TABLE
  BlindBet,       \* the 50 of start_game
  Game,           \* the type parameter G
  OverflowChecks, \* the build profile: TRUE for debug, FALSE for release
  WordSize        \* 2^64, the modulus of u64

ASSUME IdsAssumption == IsFiniteSet(Ids) /\ None \notin Ids
ASSUME GameAssumption == Game \in {"TexasHoldem", "FiveCardDraw", "SevenCardStud"}
ASSUME NumberAssumption ==
  /\ MaxPlayers \in Nat \ {0}
  /\ BlindBet \in Nat \ {0}
  /\ WordSize \in Nat \ {0}
  /\ OverflowChecks \in BOOLEAN

Pointer == Ids \cup {None}

Orders == [S \in SUBSET Ids |-> Bijection(1..Cardinality(S), S)]

Ranks == [S \in SUBSET Ids |-> Bijection(S, 1..Cardinality(S))]

(***************************************************************************)
(* The three games                                                         *)
(***************************************************************************)

IsAnte == Game # "TexasHoldem"

\* The first round number for which handle_round_action ends the game.
EndRound == CASE Game = "TexasHoldem"   -> 4
              [] Game = "FiveCardDraw"  -> 3
              [] Game = "SevenCardStud" -> 5

\* Five card draw takes no bets in round 1: client_action discards instead.
IsDrawRound(t) == Game = "FiveCardDraw" /\ t.round = 1

(***************************************************************************)
(* The empty table, and what the rest of the module reads off a table      *)
(***************************************************************************)

TableType ==
  [ players   : SUBSET Ids,
    wallet    : [Ids -> Nat],
    pbet      : [Ids -> Nat],
    folded    : [Ids -> BOOLEAN],
    nextf     : [Ids -> Pointer],
    prevf     : [Ids -> Pointer],
    next      : [Ids -> Pointer],
    prev      : [Ids -> Pointer],
    head      : Pointer,
    bettor    : Pointer,
    blind     : Pointer,
    turn      : Pointer,
    bet       : Nat,
    pot       : Nat,
    round     : Nat,
    showdown  : Pointer,
    confirmed : SUBSET Ids,
    clock     : {"off", "fresh", "expired"},
    health    : {"ok", "overflow", "selflock", "unwrap"} ]

NewTable ==
  [ players   |-> {},
    wallet    |-> [p \in Ids |-> 0],
    pbet      |-> [p \in Ids |-> 0],
    folded    |-> [p \in Ids |-> TRUE],
    nextf     |-> [p \in Ids |-> None],
    prevf     |-> [p \in Ids |-> None],
    next      |-> [p \in Ids |-> None],
    prev      |-> [p \in Ids |-> None],
    head      |-> None,
    bettor    |-> None,
    blind     |-> None,
    turn      |-> None,
    bet       |-> 0,
    pot       |-> 0,
    round     |-> 0,
    showdown  |-> None,
    confirmed |-> {},
    clock     |-> "off",
    health    |-> "ok" ]

IsRunning(t) == t.turn # None

\* The players on the ring of next pointers: those still in the hand.
Ring(t) == {p \in Ids : t.next[p] # None}

ContendersFoldedToo(t) == t.players

Contenders(t) == {p \in t.players : ~t.folded[p]}

\* The chips at the table are in wallets and in the pot.  A showdown pays the
\* bets of the seated players, and the pot where it is more.
Wallets(t, S) == SumFunctionOnSet(t.wallet, S)

Bets(t) == SumFunctionOnSet(t.pbet, t.players)

Chips(t) == Wallets(t, t.players) + Max({t.pot, Bets(t)})

MarkTurnNever(t) == [t EXCEPT !.clock = "off"]

MarkTurnStarted(t) ==
  [t EXCEPT !.clock = IF IsRunning(t) THEN "fresh" ELSE "off"]

(***************************************************************************)
(* The showdown                                                            *)
(***************************************************************************)

\* A player who joined during the hand holds no card.  That is the lowest
\* hand there is (HandRank::NoCards), unless Texas hold'em has community
\* cards to add to it.
HasCards(t, p) == t.next[p] # None \/ (Game = "TexasHoldem" /\ t.round > 0)

Strength(t, rank, p) ==
  IF HasCards(t, p) THEN rank[p] ELSE rank[p] - Cardinality(Ids)

\* Iterator::max_by over the players of S, as an Option.
Best(t, rank, S) ==
  IF \E p \in S : \A q \in S : Strength(t, rank, q) <= Strength(t, rank, p)
  THEN CHOOSE p \in S : \A q \in S : Strength(t, rank, q) <= Strength(t, rank, p)
  ELSE None

Levels(t) == {t.pbet[p] : p \in t.players} \ {0}

LevelPotFromZero(t, level) ==
  level * Cardinality({p \in t.players : t.pbet[p] >= level})

\* What the players who bet at least level put in above the level below it.
LevelPot(t, level) ==
  LET below == Max({0} \cup {l \in Levels(t) : l < level})
  IN (level - below) * Cardinality({p \in t.players : t.pbet[p] >= level})

LevelWinner(t, rank, level) ==
  Best(t, rank, {p \in Contenders(t) : t.pbet[p] >= level})

\* The levels whose pot goes to p; to nobody, if p is None.
LevelsWon(t, rank, p) == {l \in Levels(t) : LevelWinner(t, rank, l) = p}

Pots(t, levels) == SumFunctionOnSet([l \in Levels(t) |-> LevelPot(t, l)], levels)

PayLevelsOnly(t, rank) ==
  [p \in Ids |-> t.wallet[p] + Pots(t, LevelsWon(t, rank, p))]

\* The wallets after pay_showdown_pots: what the levels leave goes to the best.
PayShowdownPots(t, rank) ==
  LET paid     == Pots(t, Levels(t) \ LevelsWon(t, rank, None))
      rest     == IF paid < t.pot THEN t.pot - paid ELSE 0
      fallback == Best(t, rank, Contenders(t))
  IN [p \in Ids |-> t.wallet[p] + Pots(t, LevelsWon(t, rank, p))
                      + IF p = fallback THEN rest ELSE 0]

ClearHandButPot(t) ==
  [t EXCEPT !.pbet   = [p \in Ids |-> 0],
            !.folded = [p \in Ids |-> TRUE],
            !.next   = [p \in Ids |-> None],
            !.prev   = [p \in Ids |-> None],
            !.turn   = None,
            !.bettor = None,
            !.clock  = "off"]

\* Player::reset for every player, and the table's own fields, except bet.
ClearHand(t) ==
  [t EXCEPT !.pbet   = [p \in Ids |-> 0],
            !.folded = [p \in Ids |-> TRUE],
            !.next   = [p \in Ids |-> None],
            !.prev   = [p \in Ids |-> None],
            !.turn   = None,
            !.bettor = None,
            !.clock  = "off",
            !.pot    = 0]

\* The hand is over: the pots are paid, the winner is the head of the next
\* hand and the blind moves on.
EndGame(t, rank) ==
  LET winner == Best(t, rank, Contenders(t))
  IN IF winner = None THEN t
     ELSE ClearHand([t EXCEPT
            !.showdown  = winner,
            !.confirmed = {},
            !.wallet    = PayShowdownPots(t, rank),
            !.head      = winner,
            !.blind     = IF @ = None THEN None ELSE t.nextf[@]])

(***************************************************************************)
(* Bets                                                                    *)
(***************************************************************************)

\* The bettor changes even when the raise is then refused.
Raise(t, p, amount) ==
  IF p \notin t.players \/ amount = 0 THEN t
  ELSE IF t.wallet[p] < amount THEN [t EXCEPT !.bettor = p]
  ELSE [t EXCEPT !.bettor    = p,
                 !.wallet[p] = @ - amount,
                 !.pbet[p]   = @ + amount,
                 !.pot       = @ + amount,
                 !.bet       = t.pbet[p] + amount]

RaiseOk(t, p, amount) ==
  p \in t.players /\ amount # 0 /\ amount <= t.wallet[p]

AllIn(t, p) ==
  IF p \notin t.players \/ t.wallet[p] = 0 THEN t
  ELSE LET total == t.pbet[p] + t.wallet[p]
       IN [t EXCEPT !.wallet[p] = 0,
                    !.pbet[p]   = total,
                    !.pot       = @ + t.wallet[p],
                    !.bet       = IF total > @ THEN total ELSE @,
                    !.bettor    = IF total > t.bet THEN p ELSE @]

AllInOk(t, p) == p \in t.players /\ t.wallet[p] # 0

\* self.bet - player.bet, in u64.
Owed(t, p) == (t.bet - t.pbet[p]) % WordSize

Underflows(t, p) == OverflowChecks /\ t.bet < t.pbet[p]

CheckUnfunded(t, p) ==
  IF p \notin t.players THEN t
  ELSE [t EXCEPT !.pot = @ + Owed(t, p), !.pbet[p] = t.bet, !.wallet[p] = @ - Owed(t, p)]

Check(t, p) ==
  IF p \notin t.players THEN t
  ELSE IF Underflows(t, p) THEN [t EXCEPT !.health = "overflow"]
  ELSE IF t.wallet[p] < Owed(t, p) THEN t
  ELSE [t EXCEPT !.pot       = @ + Owed(t, p),
                 !.pbet[p]   = t.bet,
                 !.wallet[p] = @ - Owed(t, p)]

CheckOk(t, p) ==
  p \in t.players /\ ~Underflows(t, p) /\ Owed(t, p) <= t.wallet[p]

(***************************************************************************)
(* Leaving the hand and the table                                          *)
(***************************************************************************)

Replace(pointer, p, by) == IF pointer = p THEN by ELSE pointer

CutForwardOnly(t, p) ==
  [t EXCEPT !.folded[p] = TRUE,
            !.next = [q \in Ids |-> IF q = p THEN None ELSE Replace(@[q], p, t.next[p])],
            !.prev = [q \in Ids |-> IF q = p THEN None ELSE @[q]]]

\* p gives up its hand, and its neighbours on the ring become each other's.
CutFromRing(t, p) ==
  LET before == t.prev[p]
      after  == t.next[p]
  IN [t EXCEPT
       !.folded[p] = TRUE,
       !.next = [q \in Ids |-> IF q = p THEN None ELSE IF q = before THEN after ELSE @[q]],
       !.prev = [q \in Ids |-> IF q = p THEN None ELSE IF q = after THEN before ELSE @[q]]]

MoveAllButBettor(t, p, before, after) ==
  MarkTurnStarted([t EXCEPT !.head  = Replace(@, p, after),
                            !.blind = Replace(@, p, before),
                            !.turn  = Replace(@, p, before)])

\* The four pointers to p move to a neighbour, and the turn's time restarts.
MovePointers(t, p, before, after) ==
  MarkTurnStarted([t EXCEPT !.head   = Replace(@, p, after),
                            !.bettor = Replace(@, p, before),
                            !.blind  = Replace(@, p, before),
                            !.turn   = Replace(@, p, before)])

FoldNeverEnds(t, p, rank) ==
  IF p \notin t.players THEN t
  ELSE IF p \in {t.prev[p], t.next[p]} THEN [t EXCEPT !.health = "selflock"]
  ELSE MovePointers(CutFromRing(t, p), p, t.prev[p], t.next[p])

\* fold holds the lock of p's node while it locks the node's neighbours, and
\* ends the game when they are one player.
Fold(t, p, rank) ==
  LET before == t.prev[p]
      after  == t.next[p]
      folded == MovePointers(CutFromRing(t, p), p, before, after)
  IN IF p \notin t.players THEN t
     ELSE IF p \in {before, after} THEN [t EXCEPT !.health = "selflock"]
     ELSE IF before # None /\ before = after THEN EndGame(folded, rank)
     ELSE folded

\* rebuild_full_ring: seat the players in the order the HashMap yields them.
Rebuild(t, order) ==
  LET n == Cardinality(t.players)
      at == [p \in t.players |-> CHOOSE i \in 1..n : order[i] = p]
      head == IF t.head \in t.players THEN t.head ELSE order[1]
  IN IF t.players = {}
     THEN [t EXCEPT !.head = None, !.bettor = None, !.blind = None, !.turn = None,
                    !.showdown = None, !.confirmed = {}, !.clock = "off",
                    !.bet = 0, !.pot = 0]
     ELSE [t EXCEPT
            !.nextf = [p \in Ids |-> IF p \in t.players
                         THEN order[IF at[p] = n THEN 1 ELSE at[p] + 1] ELSE None],
            !.prevf = [p \in Ids |-> IF p \in t.players
                         THEN order[IF at[p] = 1 THEN n ELSE at[p] - 1] ELSE None],
            !.head  = head,
            !.blind = IF @ \in t.players THEN @ ELSE head]

\* The nodes of the players in S are dropped, with the chips they hold.
Drop(t, S) ==
  [t EXCEPT !.players = @ \ S,
            !.wallet  = [p \in Ids |-> IF p \in S THEN 0 ELSE @[p]],
            !.pbet    = [p \in Ids |-> IF p \in S THEN 0 ELSE @[p]],
            !.folded  = [p \in Ids |-> p \in S \/ @[p]],
            !.nextf   = [p \in Ids |-> IF p \in S THEN None ELSE @[p]],
            !.prevf   = [p \in Ids |-> IF p \in S THEN None ELSE @[p]]]

RemoveUnlinked(t, p, order, rank) ==
  IF p \in t.players THEN Drop(Fold(t, p, rank), {p}) ELSE t

\* remove_player.  It also joins p's two neighbours on the full ring, which
\* the rebuild at its end does again from nothing.
Remove(t, p, order, rank) ==
  LET out  == Fold(t, p, rank)
      head == IF out.head # p THEN out.head
              ELSE IF out.nextf[p] = p THEN None ELSE out.nextf[p]
  IN IF p \notin t.players \/ out.health # "ok" THEN out
     ELSE Rebuild(Drop([out EXCEPT !.head = head], {p}), order)

(***************************************************************************)
(* Joining, starting a hand, moving through it                             *)
(***************************************************************************)

LinkIntoHand(t, p, tail) ==
  [t EXCEPT !.nextf = [@ EXCEPT ![tail] = p, ![p] = t.head],
            !.prevf = [@ EXCEPT ![t.head] = p, ![p] = tail],
            !.next  = [@ EXCEPT ![tail] = p, ![p] = t.head],
            !.prev  = [@ EXCEPT ![t.head] = p, ![p] = tail]]

\* A new node goes in between the head of the full ring and its tail.
LinkNode(t, p, tail) ==
  [t EXCEPT !.nextf = [@ EXCEPT ![tail] = p, ![p] = t.head],
            !.prevf = [@ EXCEPT ![t.head] = p, ![p] = tail]]

\* A player who is already seated is not seated again (the call is an Err).
AddPlayer(t, p, chips) ==
  LET seated == [t EXCEPT !.players   = @ \cup {p},
                          !.wallet[p] = chips,
                          !.folded[p] = FALSE]
  IN IF p \in t.players \/ Cardinality(t.players) >= MaxPlayers THEN t
     ELSE IF t.head = None
     THEN [seated EXCEPT !.head = p, !.blind = p, !.nextf[p] = p, !.prevf[p] = p]
     ELSE IF t.prevf[t.head] = None THEN [t EXCEPT !.health = "unwrap"]
     ELSE LinkNode(seated, p, t.prevf[t.head])

\* The ante of start_game: check for every player of the full ring.
Ante(t) ==
  LET payers == {p \in t.players : Owed(t, p) <= t.wallet[p]}
  IN IF \E p \in t.players : Underflows(t, p)
     THEN [t EXCEPT !.health = "overflow"]
     ELSE [t EXCEPT
            !.pot    = @ + SumFunctionOnSet([p \in Ids |-> Owed(t, p)], payers),
            !.pbet   = [p \in Ids |-> IF p \in payers THEN t.bet ELSE @[p]],
            !.wallet = [p \in Ids |-> IF p \in payers THEN @[p] - Owed(t, p) ELSE @[p]]]

\* Every seated player is dealt in, and the blind bets, or its bet is refused.
Deal(t) ==
  LET dealt   == [t EXCEPT !.showdown  = None,
                           !.confirmed = {},
                           !.folded    = [p \in Ids |-> p \notin t.players],
                           !.next      = t.nextf,
                           !.prev      = t.prevf,
                           !.bet       = 0,
                           !.pot       = 0,
                           !.round     = 0]
      blinded == Raise(dealt, t.blind, BlindBet)
  IN MarkTurnStarted(
       IF IsAnte THEN Ante([blinded EXCEPT !.turn = t.blind])
       ELSE [blinded EXCEPT !.turn = t.nextf[t.blind]])

StartUnbuilt(t, order) == IF t.head = None \/ t.blind = None THEN t ELSE Deal(t)

StartGame(t, order) ==
  LET seated == Rebuild(t, order) IN IF t.players = {} THEN seated ELSE Deal(seated)

CanBet(t, p) == ~t.folded[p] /\ t.wallet[p] > 0

\* How many steps along next it is from p to q.
Distance(t, p, q) ==
  LET n == Cardinality(Ids)
      walk[k \in 0..n] ==
        IF k = 0 THEN p ELSE IF walk[k-1] = None THEN None ELSE t.next[walk[k-1]]
  IN IF \E k \in 1..n : walk[k] = q THEN Min({k \in 1..n : walk[k] = q}) ELSE n + 1

\* next_betting_node: the first on the ring after p, p excluded, who can bet.
NextBettingNode(t, p) ==
  LET S == {q \in Ring(t) \ {p} : CanBet(t, q)}
      IsNearest(q) == \A r \in S : Distance(t, p, q) <= Distance(t, p, r)
  IN IF \E q \in S : IsNearest(q) THEN CHOOSE q \in S : IsNearest(q) ELSE None

\* advance_round then round_action: deal, or end the game after the last one.
NextRound(t, rank) ==
  LET later == [t EXCEPT !.round = @ + 1]
  IN IF later.round >= EndRound THEN EndGame(later, rank) ELSE later

\* finish_remaining_rounds: nobody is left to bet, the other rounds are dealt.
FinishRemainingRounds(t, rank) ==
  EndGame([t EXCEPT !.round = IF @ < EndRound THEN EndRound ELSE @ + 1], rank)

\* The walk that compares the bets locks the current node and then its next.
AdvanceTurn(t, rank) ==
  LET current == t.turn
      next    == NextBettingNode(t, current)
      moved   == MarkTurnStarted([t EXCEPT !.turn = next])
      isRoundComplete == \/ next = t.bettor
                         \/ t.bettor # None /\ t.wallet[t.bettor] = 0
      allMatched == \A p \in Ring(t) \ {current} :
                      t.wallet[p] > 0 => t.pbet[p] = t.bet
  IN IF current = None THEN t
     ELSE IF t.next[current] = current /\ CanBet(t, current)
     THEN [t EXCEPT !.health = "selflock"]
     ELSE IF next = None THEN FinishRemainingRounds(t, rank)
     ELSE IF isRoundComplete /\ allMatched THEN NextRound(moved, rank)
     ELSE moved

\* expire_timed_out_turn, once the turn's player is known to be late.
ExpireTurn(t, order, rank) ==
  LET removed == Remove(t, t.turn, order, rank)
  IN IF removed.health = "ok" THEN AdvanceTurn(removed, rank) ELSE removed

KeepPlaying(t, p) ==
  IF t.showdown = None \/ p \notin t.players THEN t
  ELSE [t EXCEPT !.confirmed = @ \cup {p}]

\* remove_unconfirmed_players calls remove_player for one player after the
\* other.  No hand is running then, so each call only drops its player, and
\* the calls together are one rebuild: whichever player each intermediate
\* rebuild made the head or the blind, a survivor stays, a later leaver is
\* replaced by the next rebuild.
RemoveUnconfirmed(t, order) ==
  LET out == t.players \ t.confirmed
      Clear(pointer) == IF pointer \in out THEN None ELSE pointer
  IN IF t.showdown = None \/ out = {} THEN t
     ELSE Rebuild(Drop([t EXCEPT !.head   = Clear(@),
                                 !.bettor = Clear(@),
                                 !.blind  = Clear(@),
                                 !.clock  = "off"], out), order)

(***************************************************************************)
(* What is said of a table's pointers, and of a step from t to u.          *)
(* RingConsistent, OneRing, NoDanglingPointer, SeatOrderKept and           *)
(* OnlyContendersWin of module Table are made of these.                    *)
(***************************************************************************)

RingLinks(t) ==
  \A p \in Ring(t) :
    /\ p \in Contenders(t)
    /\ t.next[p] \in Ring(t) \ {p} /\ t.prev[t.next[p]] = p
    /\ t.prev[p] \in Ring(t) \ {p} /\ t.next[t.prev[p]] = p

TurnOnRing(t) ==
  /\ \A p \in Ids \ Ring(t) : t.prev[p] = None
  /\ IsRunning(t) => t.turn \in Ring(t)
  /\ ~IsRunning(t) => Ring(t) = {}
  /\ t.clock = "off" <=> ~IsRunning(t)

SeatLinks(t) ==
  \A p \in t.players :
    /\ t.nextf[p] \in t.players /\ t.prevf[t.nextf[p]] = p
    /\ t.prevf[p] \in t.players /\ t.nextf[t.prevf[p]] = p

OneCycle(t) ==
  \A S \in (SUBSET Ring(t)) \ {{}} :
    (\A p \in S : t.next[p] \in S) => S = Ring(t)

PointersSeated(t) == {t.head, t.blind, t.bettor, t.turn} \subseteq t.players \cup {None}

SeatOrder(t, u) ==
  /\ Cardinality(Ring(t) \ Ring(u)) <= 1
  /\ \A p \in Ring(u) :
       /\ p \in Ring(t)
       /\ \/ u.next[p] = t.next[p]
          \/ u.next[p] = t.next[t.next[p]] /\ t.next[p] \notin Ring(u)

HandEnds(t, u) == IsRunning(t) /\ ~IsRunning(u)

WalletsGrowAtTheEnd(t, u) ==
  \A p \in t.players : u.wallet[p] > t.wallet[p] => HandEnds(t, u) /\ ~t.folded[p]

WinnerWasDealtIn(t, u) ==
  Game # "TexasHoldem" /\ HandEnds(t, u) /\ u.showdown # None => u.showdown \in Ring(t)
=============================================================================
