----------------------------- MODULE CardTable ------------------------------
(***************************************************************************)
(* A table together with the cards of its game: what start_game, the       *)
(* rounds, the draw and the showdown do with the deck and the hands.       *)
(* Requests come one at a time and each is whole (module WebTable has what *)
(* happens between their critical sections); the monitor, players who come *)
(* and leave and turns that time out come between any two of them.         *)
(***************************************************************************)
EXTENDS TableOps

CONSTANTS
  DeckSize,  \* the cards of generate_deck!()
  Aces,      \* where in the shuffled deck the aces are
  JoinChips, \* as in Table
  Amounts,
  MaxChips

VARIABLES
  table,
  cards,     \* the game's deck and community cards, and the players' hands
  shown,     \* the hands in the table's showdown
  seen       \* history, as in Cards

vars == <<table, cards, shown, seen>>

Card == 1..DeckSize

NoCards == [p \in Ids |-> {}]

(***************************************************************************)
(* What a round deals: to each player in turn face down and then face up,  *)
(* and to the board                                                        *)
(***************************************************************************)

FiveCardDrawDown(round) == IF round = 0 THEN 5 ELSE 0

TexasHoldemDown(round) == IF round = 0 THEN 2 ELSE 0

SevenCardStudDown(round) == CASE round = 0 -> 2 [] round = 4 -> 1 [] OTHER -> 0

Down(round) ==
  CASE Game = "FiveCardDraw"  -> FiveCardDrawDown(round)
    [] Game = "TexasHoldem"   -> TexasHoldemDown(round)
    [] Game = "SevenCardStud" -> SevenCardStudDown(round)

Up(round) == IF Game = "SevenCardStud" /\ round \in 0..3 THEN 1 ELSE 0

Board(round) ==
  IF Game # "TexasHoldem" THEN 0
  ELSE CASE round = 1 -> 3 [] round \in {2, 3} -> 1 [] OTHER -> 0

\* The n cards that come off the end of the deck after the first others.
Off(deck, first, n) == {x \in 1..deck : deck - x \in first..(first + n - 1)}

NewDeck == [left |-> DeckSize, hand |-> NoCards, faceUp |-> {}, community |-> {}]

DealRoundSame(c, t, round) ==
  [c EXCEPT !.left = Max({0, @ - Down(round)}),
            !.hand = [p \in Ids |-> IF p \in Ring(t) THEN @[p] \cup Off(c.left, 0, Down(round))
                                    ELSE @[p]]]

\* handle_round_action: the walk along next, from the turn, deals to each.
\* A deck that runs out deals what it has.
DealRound(c, t, round) ==
  LET each     == Down(round) + Up(round)
      place(p) == IF p = t.turn THEN 0 ELSE Distance(t, t.turn, p)
      first    == [p \in Ring(t) |-> place(p) * each]
      down(p)  == Off(c.left, first[p], Down(round))
      up(p)    == Off(c.left, first[p] + Down(round), Up(round))
      board    == Off(c.left, 0, Board(round))
      number   == each * Cardinality(Ring(t)) + Board(round)
  IN [left      |-> Max({0, c.left - number}),
      hand      |-> [p \in Ids |-> IF p \in Ring(t) THEN c.hand[p] \cup down(p) \cup up(p)
                                   ELSE c.hand[p]],
      faceUp    |-> c.faceUp \cup board \cup (UNION {up(p) : p \in Ring(t)}),
      community |-> c.community \cup board]

\* finish_remaining_rounds deals round after round.
DealRounds(c, t, first, last) ==
  LET dealt[round \in (first - 1)..last] ==
        IF round < first THEN c ELSE DealRound(dealt[round - 1], t, round)
  IN dealt[last]

(***************************************************************************)
(* The cards after a call that takes the table from t to later.  winners   *)
(* are the players whose hands a showdown compares if the call ends it.    *)
(***************************************************************************)

Started(t, later) == ~IsRunning(t) /\ IsRunning(later)

Ended(t, later) == IsRunning(t) /\ ~IsRunning(later)

NothingMoreDealt(s, later) == s.cards

AllDealt(s, later) ==
  DealRounds(s.cards, s.table, s.table.round + 1, Min({later.round, EndRound - 1}))

\* A player who leaves takes the hand along: the node is dropped.
HandsOf(c, players) == [c EXCEPT !.hand = [p \in Ids |-> IF p \in players THEN @[p] ELSE {}]]

AfterDealtBefore(s, later, contenders) ==
  LET dealt == IF IsRunning(later) /\ later.round > s.table.round
               THEN DealRound(s.cards, later, s.table.round) ELSE s.cards
  IN IF Started(s.table, later)
     THEN [table |-> later, cards |-> DealRound(NewDeck, later, 0), shown |-> NoCards]
     ELSE [table |-> later, cards |-> HandsOf(dealt, later.players), shown |-> NoCards]

After(s, later, contenders) ==
  LET t == s.table IN
  IF Started(t, later)
  THEN [table |-> later, cards |-> DealRound(NewDeck, later, 0), shown |-> NoCards]
  ELSE IF Ended(t, later)
  THEN [table |-> later,
        cards |-> HandsOf(AllDealt(s, later), {}),
        shown |-> HandsOf(AllDealt(s, later), contenders).hand]
  ELSE [table |-> later,
        cards |-> HandsOf(IF IsRunning(later) /\ later.round > t.round
                          THEN DealRound(s.cards, later, later.round) ELSE s.cards,
                          later.players),
        shown |-> IF later.showdown = None THEN NoCards ELSE s.shown]

State == [table |-> table, cards |-> cards, shown |-> shown]

ThenAdvance(s, rank) == After(s, AdvanceTurn(s.table, rank), Contenders(s.table))

Visible(s, p) ==
  s.cards.hand[p] \cup s.cards.community
    \cup (UNION {s.cards.hand[q] \cap s.cards.faceUp : q \in Ids})
    \cup (UNION {s.shown[q] : q \in Ids})

Becomes(s) ==
  /\ table' = s.table /\ cards' = s.cards /\ shown' = s.shown
  /\ seen' = [p \in Ids |-> Visible(s, p) \cup
                IF Started(table, s.table) THEN {} ELSE seen[p]]

-----------------------------------------------------------------------------

Init ==
  /\ table = NewTable
  /\ cards = [NewDeck EXCEPT !.left = 0]
  /\ shown = NoCards /\ seen = NoCards

Available == table.health = "ok"

Join(p) ==
  \E chips \in JoinChips :
    /\ Available /\ p \notin table.players
    /\ Chips(table) + chips <= MaxChips
    /\ Becomes(After(State, AddPlayer(table, p, chips), {}))

\* run_action: the turn's player bets, and the turn moves on if the bet is Ok.
BetThenAdvance(later, isOk) ==
  LET bet == After(State, later, {})
  IN \/ ~isOk /\ Becomes(bet)
     \/ isOk /\ \E rank \in Ranks[Contenders(later)] : Becomes(ThenAdvance(bet, rank))

Bet ==
  LET p == table.turn IN
  /\ Available /\ IsRunning(table) /\ ~IsDrawRound(table)
  /\ \/ \E amount \in Amounts :
          BetThenAdvance(Raise(table, p, amount), RaiseOk(table, p, amount))
     \/ BetThenAdvance(AllIn(table, p), AllInOk(table, p))
     \/ BetThenAdvance(Check(table, p), CheckOk(table, p))

FoldHand ==
  \E rank \in Ranks[Contenders(table)] :
    /\ Available /\ IsRunning(table) /\ ~IsDrawRound(table)
    /\ Becomes(ThenAdvance(
         After(State, Fold(table, table.turn, rank), Contenders(table) \ {table.turn}), rank))

\* replace_cards takes at most four cards of the hand, and four only if the one
\* that is kept, temp_hand[0], is an ace; with none kept that index panics.
Discards(inHand) ==
  {discard \in SUBSET inHand :
    /\ Cardinality(discard) <= 4
    /\ Cardinality(discard) = 4 => inHand \ discard \subseteq Aces}

ReplaceCardsUndealt(p, discard) ==
  [State EXCEPT !.cards.hand[p] = (@ \ discard) \cup Off(cards.left, 0, Cardinality(discard))]

ReplaceCards(p, discard) ==
  [State EXCEPT !.cards.hand[p] = (@ \ discard) \cup Off(cards.left, 0, Cardinality(discard)),
                !.cards.left    = Max({0, @ - Cardinality(discard)})]

Panics(p, discard) == Cardinality(discard) = 4 /\ discard = cards.hand[p]

\* client_action in the round of the draw, and advance_turn under the same lock.
Draw ==
  /\ Available /\ IsRunning(table) /\ IsDrawRound(table)
  /\ \E discard \in Discards(cards.hand[table.turn]), rank \in Ranks[Contenders(table)] :
       IF Panics(table.turn, discard)
       THEN Becomes([State EXCEPT !.table.health = "unwrap"])
       ELSE Becomes(ThenAdvance(ReplaceCards(table.turn, discard), rank))

Leave(p) ==
  \E rank \in Ranks[Contenders(table)], order \in Orders[table.players \ {p}] :
    /\ Available /\ p \in table.players
    /\ Becomes(After(State, Remove(table, p, order, rank), Contenders(table) \ {p}))

Confirm(p) ==
  /\ Available /\ table.showdown # None
  /\ Becomes(After(State, KeepPlaying(table, p), {}))

Start ==
  \E order \in Orders[table.players] :
    /\ Available /\ Cardinality(table.players) >= 2 /\ ~IsRunning(table)
    /\ Becomes(After(State, StartGame(table, order), {}))

\* expire_timed_out_turn: remove_player, and then advance_turn.
Expire ==
  LET p == table.turn IN
  \E rank \in Ranks[Contenders(table)], order \in Orders[table.players \ {table.turn}] :
    /\ Available /\ IsRunning(table)
    /\ Becomes(ThenAdvance(
         After(State, Remove(table, p, order, rank), Contenders(table) \ {p}), rank))

Purge ==
  \E order \in Orders[table.confirmed \cap table.players] :
    /\ Available /\ table.showdown # None
    /\ Becomes(After(State, RemoveUnconfirmed(table, order), {}))

Next ==
  \/ Bet \/ FoldHand \/ Draw \/ Start \/ Expire \/ Purge
  \/ \E p \in Ids : Join(p) \/ Leave(p) \/ Confirm(p)

Spec == Init /\ [][Next]_vars

-----------------------------------------------------------------------------

\* The rules of the games: the cards of each player who is in the hand, and those
\* on the board, once a round has been dealt.
InHand(round) ==
  CASE Game = "FiveCardDraw"  -> 5
    [] Game = "TexasHoldem"   -> 2
    [] Game = "SevenCardStud" -> round + 3

OnBoard(round) == IF Game = "TexasHoldem" /\ round > 0 THEN round + 2 ELSE 0

\* A deck of as many cards as the game can deal is never short: in every round
\* each player of the hand holds the cards that the rules give them by then, and
\* so does the board, however many have folded, left, joined or drawn cards
\* (deck.rs:33 deals fewer cards without a word when the deck is short).
HandsMatchRound ==
  IsRunning(table) =>
    /\ Cardinality(cards.community) = OnBoard(table.round)
    /\ \A p \in Ring(table) : Cardinality(cards.hand[p]) = InHand(table.round)

\* The last round shows complete hands: see ShowdownIsComplete in MCCards.
ShowdownStep ==
  Ended(table, table') /\ table'.round >= EndRound =>
    /\ Cardinality(cards'.community) = OnBoard(EndRound - 1)
    /\ \A p \in Ring(table) \ {table.turn} : p \in table'.players =>
         Cardinality(shown'[p]) = InHand(EndRound - 1)
=============================================================================
